---- MODULE Spec2Model ----
(***************************************************************************)
(* Request-governance subsystem of apimgr/anime: the brute-force guard of  *)
(* the admin authentication middleware and the live-reloadable settings    *)
(* manager in front of the durable settings table.                         *)
(***************************************************************************)
EXTENDS Integers, Sequences, FiniteSets, TLC

(***************************************************************************)
(* Bounds of the model.  Time is counted in minutes; the clock advances in *)
(* steps of TickStep minutes up to MaxTime.                                *)
(***************************************************************************)
TickStep == 15
MaxTime == 30

(***************************************************************************)
(* Program constants of the brute-force guard.                             *)
(***************************************************************************)
maxFailedAttempts == 5
failedAttemptTimeout == 15

Procs == {"g1", "g2"}
Identities == {"ipA", "ipB"}
NoHolder == "nobody"

(***************************************************************************)
(* The runs explored: one goroutine working on every identity and every    *)
(* settings key, and all goroutines working concurrently on one identity   *)
(* and on one settings key.                                                *)
(***************************************************************************)
Scenarios == { [procs |-> {"g1"}, ids |-> Identities,
                keys |-> {"cors_enabled", "cors_allowed_origins", "cors_max_age"}],
               [procs |-> Procs, ids |-> {"ipA"},
                keys |-> {"cors_enabled"}] }

(***************************************************************************)
(* failedLoginAttempt; exists = FALSE stands for "no entry in the map".    *)
(***************************************************************************)
NoRecord == [exists |-> FALSE, count |-> 0, lastAttempt |-> 0]
failedLoginAttempt(c, t) == [exists |-> TRUE, count |-> c, lastAttempt |-> t]

VARIABLES
    failedAttempts,     \* map ip -> failedLoginAttempt
    failedAttemptsMu,   \* holder of the write lock, or NoHolder
    now,                \* monotonic clock, minutes
    dbConfigured,       \* s.db != nil
    scenario,           \* the goroutines and client identities of this run
    pc,                 \* position of each request goroutine in authMiddleware
    ip,                 \* clientIP of the request a goroutine serves
    attempt,            \* local `attempt` of recordFailedAttempt
    trace,              \* what the request did so far, in order
    overlap,            \* another recordFailedAttempt(ip) was in progress
    streak,             \* history: recorded failures in a row, per identity
    streakLast,         \* history: time of the last recorded failure
    last                \* history: the latest guard operation or response

bfVars == <<failedAttempts, failedAttemptsMu, now, dbConfigured, scenario, pc, ip,
            attempt, trace, overlap, streak, streakLast, last>>

(***************************************************************************)
(* The brute-force guard's functions.                                      *)
(***************************************************************************)
Expired(a, t) == t - a.lastAttempt > failedAttemptTimeout

\* mutant: a record that is exactly failedAttemptTimeout old counts as expired
checkBruteForceEarlyExpiry(fa, x, t) ==
    IF ~fa[x].exists THEN FALSE
    ELSE IF t - fa[x].lastAttempt >= failedAttemptTimeout THEN FALSE
    ELSE fa[x].count >= maxFailedAttempts

\* mutant: blocks only above the threshold
checkBruteForceStrict(fa, x, t) ==
    IF ~fa[x].exists THEN FALSE
    ELSE IF Expired(fa[x], t) THEN FALSE
    ELSE fa[x].count > maxFailedAttempts

\* checkBruteForce, applied to the map and the clock it reads
checkBruteForce(fa, x, t) ==
    IF ~fa[x].exists THEN FALSE
    ELSE IF Expired(fa[x], t) THEN FALSE
    ELSE fa[x].count >= maxFailedAttempts

\* mutant: an expired record keeps counting from its old count
nextAttemptNoExpiry(a, t) ==
    IF ~a.exists THEN failedLoginAttempt(1, t)
    ELSE failedLoginAttempt(a.count + 1, t)

\* the record recordFailedAttempt stores, given the one it read
nextAttempt(a, t) ==
    IF ~a.exists THEN failedLoginAttempt(1, t)
    ELSE IF Expired(a, t) THEN failedLoginAttempt(1, t)
    ELSE failedLoginAttempt(a.count + 1, t)

\* mutant: the count is zeroed but the entry stays in the map
resetKeepsEntry(fa, x) ==
    [fa EXCEPT ![x] = IF fa[x].exists THEN failedLoginAttempt(0, fa[x].lastAttempt)
                      ELSE fa[x]]

\* resetFailedAttempts: delete(failedAttempts, ip)
resetFailedAttempts(fa, x) == [fa EXCEPT ![x] = NoRecord]

\* mutant: the sweep also removes a record that is exactly failedAttemptTimeout old
cleanupExpiredAttemptsEarly(fa, t) ==
    [x \in Identities |->
        IF fa[x].exists /\ t - fa[x].lastAttempt >= failedAttemptTimeout
        THEN NoRecord ELSE fa[x]]

\* cleanupExpiredAttempts: delete every expired entry
cleanupExpiredAttempts(fa, t) ==
    [x \in Identities |->
        IF fa[x].exists /\ t - fa[x].lastAttempt > failedAttemptTimeout
        THEN NoRecord ELSE fa[x]]

\* mutant: the lock does not exclude other holders (RLock instead of Lock)
LockShared(p) == TRUE

\* failedAttemptsMu.Lock() / RLock() can proceed
CanLock(p) == failedAttemptsMu = NoHolder

(***************************************************************************)
(* Requests.  A header value is a sequence of words and " " separators.    *)
(***************************************************************************)
Headers == { <<>>, <<"Bearer", " ", "good">>, <<"Bearer", " ", "bad">>,
             <<"Basic", " ", "good">>, <<"good">> }
NoCookie == [present |-> FALSE, value |-> <<>>]
Cookies == { NoCookie, [present |-> TRUE, value |-> <<"good">>],
             [present |-> TRUE, value |-> <<"bad">>],
             [present |-> TRUE, value |-> <<>>] }
Requests == [authorization : Headers, cookie : Cookies]
AdminTokens == { <<"good">> }

\* strings.SplitN(h, " ", 2)
FirstSpace(h) ==
    IF \E i \in 1..Len(h) : h[i] = " "
    THEN CHOOSE i \in 1..Len(h) : h[i] = " " /\ \A j \in 1..(i-1) : h[j] # " "
    ELSE 0
SplitN2(h) ==
    IF FirstSpace(h) = 0 THEN <<h>>
    ELSE <<SubSeq(h, 1, FirstSpace(h) - 1), SubSeq(h, FirstSpace(h) + 1, Len(h))>>

\* the Authorization value authMiddleware parses (header, else cookie)
AuthHeader(req) ==
    IF req.authorization # <<>> THEN req.authorization
    ELSE <<"Bearer", " ">> \o req.cookie.value

\* db.ValidateToken: outcomes of the admin_users query
ValidateToken(token) == { [valid |-> token \in AdminTokens, err |-> FALSE],
                          [valid |-> FALSE, err |-> TRUE] }

\* outcome of the credential part of authMiddleware for one request
CredentialOutcome(req, dbOk) ==
    IF req.authorization = <<>> /\ ~req.cookie.present
    THEN { "no_token" }
    ELSE IF Len(SplitN2(AuthHeader(req))) # 2 \/ SplitN2(AuthHeader(req))[1] # <<"Bearer">>
    THEN { "malformed" }
    ELSE IF ~dbOk THEN { "no_database" }
    ELSE { IF v.err THEN "verify_error" ELSE IF v.valid THEN "verified" ELSE "invalid_token"
           : v \in ValidateToken(SplitN2(AuthHeader(req))[2]) }

\* mutant: a malformed Authorization header is answered without recording
RecordsFailureLax(o) == o \in {"no_token", "invalid_token"}

\* the outcomes after which authMiddleware calls recordFailedAttempt
RecordsFailure(o) == o \in {"no_token", "malformed", "invalid_token"}

\* the status authMiddleware answers with (200: next.ServeHTTP ran)
StatusOf(o) ==
    CASE o \in {"no_token", "malformed", "invalid_token"} -> 401
      [] o = "verify_error" -> 500
      [] OTHER -> 200

(***************************************************************************)
(* History of the latest guard operation or response.                      *)
(***************************************************************************)
NoIp == "-"
NoLast == [op |-> "none", ip |-> NoIp, at |-> 0, pre |-> [x \in Identities |-> NoRecord],
           ret |-> FALSE, status |-> 0, trace |-> <<>>, streak |-> 0, streakLast |-> 0,
           prevReset |-> -1, overlap |-> FALSE]

Event(op, x, ret, status, tr, ov) ==
    [op |-> op, ip |-> x, at |-> now, pre |-> failedAttempts, ret |-> ret,
     status |-> status, trace |-> tr, streak |-> streak[x], streakLast |-> streakLast[x],
     prevReset |-> IF last.ip # x THEN -1
                   ELSE IF last.op = "reset" THEN last.pre[x].count
                   ELSE IF last.op = "check" THEN last.prevReset
                   ELSE -1,
     overlap |-> ov]

InRecord(q) == pc[q] \in {"rfa", "rfa_read", "rfa_write"}

Finish(p) ==
    /\ pc' = [pc EXCEPT ![p] = "idle"]
    /\ ip' = [ip EXCEPT ![p] = NoIp]
    /\ attempt' = [attempt EXCEPT ![p] = NoRecord]
    /\ trace' = [trace EXCEPT ![p] = <<>>]
    /\ overlap' = [overlap EXCEPT ![p] = FALSE]

(***************************************************************************)
(* authMiddleware, one action per step of a request goroutine.             *)
(***************************************************************************)
\* mutant: a request turned away as blocked refreshes the record
ArriveRefreshesBlocked(p, x) ==
    /\ pc[p] = "idle"
    /\ p \in scenario.procs /\ x \in scenario.ids
    /\ CanLock(p)
    /\ LET blocked == checkBruteForce(failedAttempts, x, now) IN
        /\ last' = Event("check", x, blocked, IF blocked THEN 429 ELSE 0, <<"check">>, FALSE)
        /\ IF blocked
           THEN /\ failedAttempts' = [failedAttempts EXCEPT ![x].lastAttempt = now]
                /\ UNCHANGED <<pc, ip, trace>>
           ELSE /\ pc' = [pc EXCEPT ![p] = "creds"]
                /\ ip' = [ip EXCEPT ![p] = x]
                /\ trace' = [trace EXCEPT ![p] = <<"check">>]
                /\ UNCHANGED failedAttempts
    /\ UNCHANGED <<failedAttemptsMu, now, dbConfigured, scenario, attempt,
                   overlap, streak, streakLast>>

\* getClientIP, then checkBruteForce under the read lock; 429 when blocked
Arrive(p, x) ==
    /\ pc[p] = "idle"
    /\ p \in scenario.procs /\ x \in scenario.ids
    /\ CanLock(p)
    /\ LET blocked == checkBruteForce(failedAttempts, x, now) IN
        /\ last' = Event("check", x, blocked, IF blocked THEN 429 ELSE 0, <<"check">>, FALSE)
        /\ IF blocked
           THEN UNCHANGED <<pc, ip, trace>>
           ELSE /\ pc' = [pc EXCEPT ![p] = "creds"]
                /\ ip' = [ip EXCEPT ![p] = x]
                /\ trace' = [trace EXCEPT ![p] = <<"check">>]
    /\ UNCHANGED <<failedAttempts, failedAttemptsMu, now, dbConfigured, scenario, attempt,
                   overlap, streak, streakLast>>

\* header / cookie extraction, Bearer parsing and db.ValidateToken
ReadCredentials(p, req) ==
    /\ pc[p] = "creds"
    /\ \E o \in CredentialOutcome(req, dbConfigured) :
        LET tr == trace[p] \o <<"credentials", o>> IN
        IF RecordsFailure(o)
        THEN /\ pc' = [pc EXCEPT ![p] = "rfa"]
             /\ trace' = [trace EXCEPT ![p] = tr]
             /\ overlap' = [q \in Procs |->
                   IF q = p THEN \E r \in Procs \ {p} : InRecord(r) /\ ip[r] = ip[p]
                   ELSE overlap[q] \/ (InRecord(q) /\ ip[q] = ip[p])]
             /\ UNCHANGED <<ip, attempt, last>>
        ELSE IF o = "verified"
        THEN /\ pc' = [pc EXCEPT ![p] = "reset"]
             /\ trace' = [trace EXCEPT ![p] = tr]
             /\ UNCHANGED <<ip, attempt, overlap, last>>
        ELSE /\ last' = Event("respond", ip[p], FALSE, StatusOf(o),
                              IF StatusOf(o) = 200 THEN tr \o <<"handler">> ELSE tr, FALSE)
             /\ Finish(p)
    /\ UNCHANGED <<failedAttempts, failedAttemptsMu, now, dbConfigured, scenario, streak, streakLast>>

\* recordFailedAttempt: failedAttemptsMu.Lock()
RfaLock(p) ==
    /\ pc[p] = "rfa"
    /\ CanLock(p)
    /\ failedAttemptsMu' = p
    /\ pc' = [pc EXCEPT ![p] = "rfa_read"]
    /\ UNCHANGED <<failedAttempts, now, dbConfigured, scenario, ip, attempt, trace, overlap,
                   streak, streakLast, last>>

\* recordFailedAttempt: attempt, exists := failedAttempts[ip]
RfaRead(p) ==
    /\ pc[p] = "rfa_read"
    /\ attempt' = [attempt EXCEPT ![p] = failedAttempts[ip[p]]]
    /\ pc' = [pc EXCEPT ![p] = "rfa_write"]
    /\ UNCHANGED <<failedAttempts, failedAttemptsMu, now, dbConfigured, scenario, ip, trace,
                   overlap, streak, streakLast, last>>

\* recordFailedAttempt: the store, the deferred Unlock, then the 401
RfaWrite(p) ==
    /\ pc[p] = "rfa_write"
    /\ failedAttempts' = [failedAttempts EXCEPT ![ip[p]] = nextAttempt(attempt[p], now)]
    /\ failedAttemptsMu' = NoHolder
    /\ streak' = [streak EXCEPT ![ip[p]] =
          IF @ > 0 /\ now - streakLast[ip[p]] <= failedAttemptTimeout THEN @ + 1 ELSE 1]
    /\ streakLast' = [streakLast EXCEPT ![ip[p]] = now]
    /\ last' = Event("record", ip[p], FALSE, 401, trace[p] \o <<"record">>, overlap[p])
    /\ Finish(p)
    /\ UNCHANGED <<now, dbConfigured, scenario>>

\* resetFailedAttempts after a valid token, then next.ServeHTTP
Reset(p) ==
    /\ pc[p] = "reset"
    /\ CanLock(p)
    /\ failedAttempts' = resetFailedAttempts(failedAttempts, ip[p])
    /\ streak' = [streak EXCEPT ![ip[p]] = 0]
    /\ streakLast' = [streakLast EXCEPT ![ip[p]] = 0]
    /\ last' = Event("reset", ip[p], FALSE, 200, trace[p] \o <<"reset", "handler">>, FALSE)
    /\ Finish(p)
    /\ UNCHANGED <<failedAttemptsMu, now, dbConfigured, scenario>>

\* one run of the sweeper goroutine's cleanupExpiredAttempts
Cleanup ==
    /\ CanLock("sweeper")
    /\ failedAttempts' = cleanupExpiredAttempts(failedAttempts, now)
    /\ last' = [NoLast EXCEPT !.op = "cleanup", !.at = now, !.pre = failedAttempts]
    /\ UNCHANGED <<failedAttemptsMu, now, dbConfigured, scenario, pc, ip, attempt, trace,
                   overlap, streak, streakLast>>

\* time passes
Tick ==
    /\ now + TickStep <= MaxTime
    /\ now' = now + TickStep
    /\ UNCHANGED <<failedAttempts, failedAttemptsMu, dbConfigured, scenario, pc, ip, attempt,
                   trace, overlap, streak, streakLast, last>>

InitGuard ==
    /\ failedAttempts = [x \in Identities |-> NoRecord]
    /\ failedAttemptsMu = NoHolder
    /\ now = 0
    /\ dbConfigured \in BOOLEAN
    /\ scenario \in Scenarios
    /\ pc = [p \in Procs |-> "idle"]
    /\ ip = [p \in Procs |-> NoIp]
    /\ attempt = [p \in Procs |-> NoRecord]
    /\ trace = [p \in Procs |-> <<>>]
    /\ overlap = [p \in Procs |-> FALSE]
    /\ streak = [x \in Identities |-> 0]
    /\ streakLast = [x \in Identities |-> 0]
    /\ last = NoLast

GuardStep ==
    \/ \E p \in Procs, x \in Identities : Arrive(p, x)
    \/ \E p \in Procs, req \in Requests : ReadCredentials(p, req)
    \/ \E p \in Procs : RfaLock(p)
    \/ \E p \in Procs : RfaRead(p)
    \/ \E p \in Procs : RfaWrite(p)
    \/ \E p \in Procs : Reset(p)
    \/ Cleanup
    \/ Tick

(***************************************************************************)
(* Properties of the brute-force guard.                                    *)
(***************************************************************************)
Has(tr, e) == \E i \in 1..Len(tr) : tr[i] = e
CountOf(tr, e) == Cardinality({i \in 1..Len(tr) : tr[i] = e})
FailureOutcomes == {"no_token", "malformed", "invalid_token"}

\* C1 as stated: after 5 failures in a row from X, each within the lockout
\* window of the one before, the next request of X is answered 429 before
\* any credential is read - whenever that next request arrives.
C1_BlockedAfterFive ==
    (last.op = "check" /\ last.streak >= maxFailedAttempts)
        => (last.status = 429 /\ last.trace = <<"check">>)

\* C1, amended: after 5 failures in a row from X, each within the lockout
\* window of the one before, a next request of X that is checked no later
\* than 15 minutes after the last of them is answered 429 with nothing but
\* the block check done: no credential read, no handler run.
C1_BlockedAfterFiveInWindow ==
    (/\ last.op = "check"
     /\ last.streak >= maxFailedAttempts
     /\ last.at - last.streakLast <= failedAttemptTimeout)
        => (last.ret /\ last.status = 429 /\ last.trace = <<"check">>)

C1_Witness ==
    /\ last.op = "check"
    /\ last.streak = maxFailedAttempts
    /\ last.at - last.streakLast = failedAttemptTimeout
    /\ last.status = 429

\* C2: checkBruteForce(ip) is true exactly when ip has a record whose count
\* is at least 5 and whose lastAttempt is at most 15 minutes old, and it
\* leaves the record map as it was.
C2_CheckExact ==
    last.op = "check" =>
        /\ last.ret <=> (/\ last.pre[last.ip].exists
                         /\ last.pre[last.ip].count >= 5
                         /\ last.at - last.pre[last.ip].lastAttempt <= 15)
        /\ failedAttempts = last.pre

C2_Witness ==
    /\ last.op = "check"
    /\ last.ret
    /\ last.at - last.pre[last.ip].lastAttempt = 15

\* C3: resetFailedAttempts(X) removes X's record whatever its count and
\* touches no other identity; the failure recorded right after a success
\* leaves X with count 1.
C3_ResetRemoves ==
    /\ last.op = "reset" =>
          /\ ~failedAttempts[last.ip].exists
          /\ \A y \in Identities \ {last.ip} : failedAttempts[y] = last.pre[y]
    /\ (last.op = "record" /\ last.prevReset >= 0) =>
          /\ ~last.pre[last.ip].exists
          /\ failedAttempts[last.ip].count = 1

C3_Witness ==
    /\ last.op = "record"
    /\ last.prevReset = 4
    /\ failedAttempts[last.ip].count = 1
    /\ \E y \in Identities \ {last.ip} : failedAttempts[y].exists

\* C4: recordFailedAttempt(X) stores count 1 when X has no record or an
\* expired one, and otherwise the old count plus one; lastAttempt becomes
\* the time of the call.
C4_RecordExact ==
    last.op = "record" =>
        /\ failedAttempts[last.ip].exists
        /\ failedAttempts[last.ip].lastAttempt = last.at
        /\ failedAttempts[last.ip].count =
              IF ~last.pre[last.ip].exists \/ last.at - last.pre[last.ip].lastAttempt > 15
              THEN 1 ELSE last.pre[last.ip].count + 1

C4_Witness ==
    /\ last.op = "record"
    /\ last.pre[last.ip].exists
    /\ last.pre[last.ip].count > 1
    /\ last.at - last.pre[last.ip].lastAttempt > 15
    /\ failedAttempts[last.ip].count = 1

\* C5: in every request the block check is the first thing done and the
\* credentials are read after it; a request that ends in one of the three
\* failure outcomes has recorded exactly one failure for its identity; and
\* an unexpired record disappears only by the reset of a request whose
\* token was verified.
C5_MiddlewareContract ==
    /\ last.status # 0 =>
          /\ last.trace[1] = "check"
          /\ CountOf(last.trace, "check") = 1
          /\ last.status = 429 => last.trace = <<"check">>
          /\ (\E o \in FailureOutcomes : Has(last.trace, o)) =>
                /\ last.op = "record"
                /\ CountOf(last.trace, "record") = 1
                /\ failedAttempts[last.ip].exists
                /\ failedAttempts[last.ip].lastAttempt = last.at
                /\ failedAttempts[last.ip].count \in {1, last.pre[last.ip].count + 1}
          /\ Has(last.trace, "reset") => Has(last.trace, "verified")
          /\ Has(last.trace, "record") => \E o \in FailureOutcomes : Has(last.trace, o)
    /\ \A y \in Identities :
          (last.pre[y].exists /\ ~failedAttempts[y].exists) =>
             \/ last.op = "reset" /\ last.ip = y /\ Has(last.trace, "verified")
             \/ last.op = "cleanup" /\ last.at - last.pre[y].lastAttempt > 15

C5_Witness ==
    /\ last.op = "record"
    /\ Has(last.trace, "malformed")
    /\ failedAttempts[last.ip].count = last.pre[last.ip].count + 1

\* C6: recorded failures of one identity are neither lost nor doubled: the
\* count of a record equals the number of recordFailedAttempt calls made in
\* a row for it, also when the calls overlap, and a checkBruteForce sees
\* only such a count.
C6_NoLostUpdate ==
    /\ \A x \in Identities :
          failedAttempts[x].exists => failedAttempts[x].count = streak[x]
    /\ (last.op = "check" /\ last.pre[last.ip].exists) =>
          last.pre[last.ip].count = last.streak

C6_Witness ==
    /\ last.op = "record"
    /\ last.overlap
    /\ last.streak = 1
    /\ failedAttempts[last.ip].count = 2

(***************************************************************************)
(* The durable settings table and the values it holds.  A value is the     *)
(* sequence of its characters.                                             *)
(***************************************************************************)
MaxListLen == 1

Keys == {"cors_enabled", "cors_allowed_origins", "cors_max_age"}
KindOf(k) ==
    CASE k = "cors_enabled" -> "bool"
      [] k = "cors_allowed_origins" -> "json"
      [] k = "cors_max_age" -> "int"

BoolVals == BOOLEAN
IntVals == {-1, 3600}
Elems == { <<"*">> }
ListsUpTo(n) == UNION { [1..m -> Elems] : m \in 0..n }
ListVals == ListsUpTo(MaxListLen)
ValuesOf(k) ==
    CASE KindOf(k) = "bool" -> BoolVals
      [] KindOf(k) = "int" -> IntVals
      [] KindOf(k) = "json" -> ListVals

Digit == <<"0", "1", "2", "3", "4", "5", "6", "7", "8", "9">>
DigitVal(c) == (CHOOSE i \in 1..10 : Digit[i] = c) - 1
IsDigit(c) == \E i \in 1..10 : Digit[i] = c

\* strconv.FormatBool
FormatBool(b) == IF b THEN <<"t", "r", "u", "e">> ELSE <<"f", "a", "l", "s", "e">>

\* strconv.ParseBool
ParseBool(v) ==
    IF v \in { <<"1">>, <<"t">>, <<"T">>, <<"T", "R", "U", "E">>,
               <<"t", "r", "u", "e">>, <<"T", "r", "u", "e">> }
    THEN [ok |-> TRUE, val |-> TRUE]
    ELSE IF v \in { <<"0">>, <<"f">>, <<"F">>, <<"F", "A", "L", "S", "E">>,
                    <<"f", "a", "l", "s", "e">>, <<"F", "a", "l", "s", "e">> }
    THEN [ok |-> TRUE, val |-> FALSE]
    ELSE [ok |-> FALSE, val |-> FALSE]

\* strconv.Itoa
RECURSIVE UDigits(_)
UDigits(n) == IF n < 10 THEN <<Digit[n + 1]>> ELSE UDigits(n \div 10) \o <<Digit[(n % 10) + 1]>>
Itoa(n) == IF n < 0 THEN <<"-">> \o UDigits(-n) ELSE UDigits(n)

\* strconv.Atoi: an optional sign, then one or more decimal digits
RECURSIVE UValue(_)
UValue(ds) == IF ds = <<>> THEN 0 ELSE 10 * UValue(SubSeq(ds, 1, Len(ds) - 1)) + DigitVal(ds[Len(ds)])
Atoi(v) ==
    LET signed == v # <<>> /\ v[1] \in {"+", "-"}
        ds == IF signed THEN Tail(v) ELSE v
    IN  IF ds = <<>> \/ \E i \in 1..Len(ds) : ~IsDigit(ds[i])
        THEN [ok |-> FALSE, val |-> 0]
        ELSE [ok |-> TRUE, val |-> IF signed /\ v[1] = "-" THEN -UValue(ds) ELSE UValue(ds)]

\* json.Marshal of a []string (elements need no escaping here)
RECURSIVE MarshalElems(_)
MarshalElems(l) ==
    IF l = <<>> THEN <<>>
    ELSE (<<"\"">> \o l[1] \o <<"\"">>)
         \o (IF Len(l) > 1 THEN <<",">> \o MarshalElems(Tail(l)) ELSE <<>>)
MarshalList(l) == <<"[">> \o MarshalElems(l) \o <<"]">>

\* json.Unmarshal into a []string: null, [] or ["..","..",...]
RECURSIVE UnmarshalElems(_, _, _)
UnmarshalElems(v, i, acc) ==
    IF i > Len(v) \/ v[i] # "\"" THEN [ok |-> FALSE, val |-> <<>>]
    ELSE IF ~\E j \in (i+1)..Len(v) : v[j] = "\"" THEN [ok |-> FALSE, val |-> <<>>]
    ELSE LET j == CHOOSE j \in (i+1)..Len(v) :
                      v[j] = "\"" /\ \A m \in (i+1)..(j-1) : v[m] # "\""
             e == SubSeq(v, i + 1, j - 1)
         IN  IF j + 1 = Len(v) /\ v[j + 1] = "]"
             THEN [ok |-> TRUE, val |-> Append(acc, e)]
             ELSE IF j + 1 < Len(v) /\ v[j + 1] = ","
             THEN UnmarshalElems(v, j + 2, Append(acc, e))
             ELSE [ok |-> FALSE, val |-> <<>>]
UnmarshalList(v) ==
    IF v = <<"n", "u", "l", "l">> THEN [ok |-> TRUE, val |-> <<>>]
    ELSE IF v = <<"[", "]">> THEN [ok |-> TRUE, val |-> <<>>]
    ELSE IF v # <<>> /\ v[1] = "[" THEN UnmarshalElems(v, 2, <<>>)
    ELSE [ok |-> FALSE, val |-> <<>>]

\* the serialized form an administrator sends for a typed value
Serialize(k, v) ==
    CASE KindOf(k) = "bool" -> FormatBool(v)
      [] KindOf(k) = "int" -> Itoa(v)
      [] KindOf(k) = "json" -> MarshalList(v)

(***************************************************************************)
(* Rows of the settings table, and entries of the cache map.               *)
(***************************************************************************)
NoRow == [present |-> FALSE, value |-> <<>>]
Row(v) == [present |-> TRUE, value |-> v]
EmptyMap == [k \in Keys |-> NoRow]

\* the default rows, in the order InitializeDefaultSettings lists them
DefaultSettings ==
    << [key |-> "cors_enabled", value |-> <<"t", "r", "u", "e">>],
       [key |-> "cors_allowed_origins", value |-> <<"[", "\"", "*", "\"", "]">>],
       [key |-> "cors_max_age", value |-> <<"3", "6", "0", "0">>] >>

DefaultStore ==
    [k \in Keys |-> Row(DefaultSettings[CHOOSE i \in 1..Len(DefaultSettings) :
                                            DefaultSettings[i].key = k].value)]

VARIABLES
    store,       \* the settings table: key -> row
    cache,       \* sm.cache
    mu,          \* holder of sm.mu's write lock, or NoHolder
    spc,         \* position of each goroutine in a SettingsManager call
    caller,      \* the operation on whose behalf LoadSettings runs
    arg,         \* key and typed value of the UpdateSetting in progress
    todo,        \* ResetToDefaults: keys still to delete
    idx,         \* InitializeDefaultSettings: index of the next default
    loadedFrom,  \* history: the table content the cache was last loaded from
    slast        \* history: the latest settings operation or table write

smVars == <<store, cache, mu, spc, caller, arg, todo, idx, loadedFrom, slast>>

\* db.GetSetting: "" for a missing row
GetSettingValue(st, k) == IF st[k].present THEN st[k].value ELSE <<>>

\* db.SetSetting / SetSettingDetailed: upsert
SetSetting(st, k, v) == [st EXCEPT ![k] = Row(v)]

\* db.DeleteSetting: the table afterwards, and "setting not found"
DeleteSetting(st, k) == [table |-> [st EXCEPT ![k] = NoRow], err |-> ~st[k].present]

\* db.GetAllSettings: the whole table in one query, or an error and nil
GetAllSettings(st) == { [err |-> FALSE, settings |-> st], [err |-> TRUE, settings |-> EmptyMap] }

\* db.GetBoolSetting
GetBoolSetting(st, k, dbOk, def) ==
    IF ~dbOk \/ GetSettingValue(st, k) = <<>> THEN def
    ELSE IF ~ParseBool(GetSettingValue(st, k)).ok THEN def
    ELSE ParseBool(GetSettingValue(st, k)).val

\* db.GetIntSetting
GetIntSetting(st, k, dbOk, def) ==
    IF ~dbOk \/ GetSettingValue(st, k) = <<>> THEN def
    ELSE IF ~Atoi(GetSettingValue(st, k)).ok THEN def
    ELSE Atoi(GetSettingValue(st, k)).val

\* db.GetSettingJSON into a []string, then db.GetStringArraySetting
GetStringArraySetting(st, k, dbOk, def) ==
    LET v == GetSettingValue(st, k)
        r == IF ~dbOk THEN [ok |-> FALSE, val |-> <<>>]
             ELSE IF v = <<>> THEN [ok |-> TRUE, val |-> <<>>]
             ELSE UnmarshalList(v)
    IN  IF ~r.ok \/ Len(r.val) = 0 THEN def ELSE r.val

\* sm.GetCORS, from the three table reads and whether each succeeded
GetCORS(st, ok) ==
    [Enabled |-> GetBoolSetting(st, "cors_enabled", ok[1], TRUE),
     AllowedOrigins |-> GetStringArraySetting(st, "cors_allowed_origins", ok[2], << <<"*">> >>),
     MaxAge |-> GetIntSetting(st, "cors_max_age", ok[3], 3600)]

\* sm.GetSetting: sm.cache[key]
CacheGet(c, k) == IF c[k].present THEN c[k].value ELSE <<>>

\* mutant: the loaded rows are merged into the old map
CacheAfterLoadMerge(c, r) ==
    IF r.err THEN c
    ELSE [k \in Keys |-> IF r.settings[k].present THEN r.settings[k] ELSE c[k]]

\* mutant: the map is assigned before the error is looked at
CacheAfterLoadEager(c, r) == r.settings

\* LoadSettings: sm.cache after the call, given GetAllSettings' result
CacheAfterLoad(c, r) == IF r.err THEN c ELSE r.settings

\* mutant: ResetToDefaults runs without the lock
NotLocked(p) == NoHolder

\* sm.mu after sm.mu.Lock() by p
WriteLocked(p) == p

SMidReset(q) == spc[q] \in {"rst_delete", "rst_seed"}

NoAfter == [valid |-> FALSE, key |-> "-", typed |-> FALSE]
NoSLast == [op |-> "none", proc |-> "-", key |-> "-", stage |-> "-", err |-> FALSE,
            storeFailed |-> FALSE, cacheBefore |-> EmptyMap, changed |-> 0,
            midReset |-> FALSE,
            readOk |-> TRUE, result |-> <<>>, after |-> NoAfter]

\* the round trip a read continues: the update that completed right before
AfterOf ==
    IF slast.op = "UpdateSetting" /\ ~slast.err /\ slast.after.valid THEN slast.after
    ELSE IF slast.op \in {"GetSetting", "GetCORS"} THEN slast.after
    ELSE NoAfter

\* op returned err; stage is the step it ended in, failed whether that step's
\* table access failed
SEvent(op, p, k, stage, err, failed) ==
    [NoSLast EXCEPT !.op = op, !.proc = p, !.key = k, !.stage = stage, !.err = err,
                    !.storeFailed = failed,
                    !.cacheBefore = IF failed THEN cache ELSE EmptyMap,
                    !.midReset = \E q \in Procs : SMidReset(q)]

\* a write to the table inside ResetToDefaults
TableWrite == [NoSLast EXCEPT !.op = "write"]

SFinish(p) ==
    /\ spc' = [spc EXCEPT ![p] = "idle"]
    /\ caller' = [caller EXCEPT ![p] = "-"]
    /\ arg' = [arg EXCEPT ![p] = NoAfter]
    /\ todo' = [todo EXCEPT ![p] = {}]
    /\ idx' = [idx EXCEPT ![p] = 0]

(***************************************************************************)
(* SettingsManager, one action per step of a calling goroutine.            *)
(***************************************************************************)
\* UpdateSetting: db.SetSetting, and the error return when it fails
UpdateSetting(p, k, v) ==
    /\ spc[p] = "idle"
    /\ p \in scenario.procs /\ k \in scenario.keys
    /\ \E ok \in BOOLEAN :
        IF ok
        THEN /\ store' = SetSetting(store, k, Serialize(k, v))
             /\ spc' = [spc EXCEPT ![p] = "load"]
             /\ caller' = [caller EXCEPT ![p] = "UpdateSetting"]
             /\ arg' = [arg EXCEPT ![p] = [valid |-> TRUE, key |-> k, typed |-> v]]
             /\ slast' = SEvent("SetSetting", p, "-", "SetSetting", FALSE, FALSE)
             /\ UNCHANGED <<todo, idx>>
        ELSE /\ slast' = SEvent("UpdateSetting", "-", k, "SetSetting", TRUE, TRUE)
             /\ UNCHANGED <<store, spc, caller, arg, todo, idx>>
    /\ UNCHANGED <<cache, mu, loadedFrom>>

\* ReloadSettings: the call of LoadSettings
ReloadSettings(p) ==
    /\ spc[p] = "idle"
    /\ p \in scenario.procs
    /\ spc' = [spc EXCEPT ![p] = "load"]
    /\ caller' = [caller EXCEPT ![p] = "ReloadSettings"]
    /\ UNCHANGED <<store, cache, mu, arg, todo, idx, loadedFrom, slast>>

\* LoadSettings: Lock, GetAllSettings, swap the map, Unlock, return
LoadSettings(p) ==
    /\ spc[p] = "load"
    /\ mu = NoHolder
    /\ \E r \in GetAllSettings(store) :
        /\ cache' = CacheAfterLoad(cache, r)
        /\ loadedFrom' = IF r.err THEN loadedFrom ELSE store
        /\ slast' = [SEvent(caller[p], "-", arg[p].key, "LoadSettings", r.err, r.err) EXCEPT
                        !.changed = Cardinality({k \in Keys : cache'[k] # cache[k]}),
                        !.after = IF /\ caller[p] = "UpdateSetting" /\ ~r.err
                                     /\ slast.op = "SetSetting" /\ slast.proc = p
                                  THEN arg[p] ELSE NoAfter]
    /\ SFinish(p)
    /\ UNCHANGED <<store, mu>>

\* GetSetting under the read lock
GetSetting(p, k) ==
    /\ spc[p] = "idle"
    /\ p \in scenario.procs
    /\ mu = NoHolder
    /\ slast' = [SEvent("GetSetting", "-", k, "read", FALSE, FALSE) EXCEPT
                    !.result = CacheGet(cache, k), !.after = AfterOf]
    /\ UNCHANGED <<store, cache, mu, spc, caller, arg, todo, idx, loadedFrom>>

\* GetCORS under the read lock; one of its table reads may fail
CallGetCORS(p) ==
    /\ spc[p] = "idle"
    /\ p \in scenario.procs
    /\ mu = NoHolder
    /\ \E failAt \in 0..3 :
        slast' = [SEvent("GetCORS", "-", "-", "read", FALSE, failAt # 0) EXCEPT
                     !.result = GetCORS(store, [i \in 1..3 |-> i # failAt]),
                     !.readOk = (failAt = 0),
                     !.after = AfterOf]
    /\ UNCHANGED <<store, cache, mu, spc, caller, arg, todo, idx, loadedFrom>>

\* ResetToDefaults: Lock, then GetAllSettings
ResetBegin(p) ==
    /\ spc[p] = "idle"
    /\ p \in scenario.procs
    /\ mu = NoHolder
    /\ \E r \in GetAllSettings(store) :
        IF r.err
        THEN /\ slast' = SEvent("ResetToDefaults", "-", "-", "GetAllSettings", TRUE, TRUE)
             /\ UNCHANGED <<mu, spc, todo, idx>>
        ELSE /\ mu' = WriteLocked(p)
             /\ todo' = [todo EXCEPT ![p] = {k \in Keys : r.settings[k].present}]
             /\ spc' = [spc EXCEPT ![p] =
                   IF \E k \in Keys : r.settings[k].present THEN "rst_delete" ELSE "rst_seed"]
             /\ idx' = [idx EXCEPT ![p] = 1]
             /\ UNCHANGED slast
    /\ UNCHANGED <<store, cache, caller, arg, loadedFrom>>

\* ResetToDefaults: one DeleteSetting of the loop (map order is arbitrary);
\* a failure is logged and the loop goes on
ResetDelete(p, k) ==
    /\ spc[p] = "rst_delete"
    /\ k \in todo[p]
    /\ \E ok \in BOOLEAN :
        /\ store' = IF ok THEN DeleteSetting(store, k).table ELSE store
        /\ slast' = TableWrite
    /\ todo' = [todo EXCEPT ![p] = @ \ {k}]
    /\ spc' = [spc EXCEPT ![p] = IF todo[p] = {k} THEN "rst_seed" ELSE "rst_delete"]
    /\ UNCHANGED <<cache, mu, caller, arg, idx, loadedFrom>>

\* InitializeDefaultSettings: one default; an error ends ResetToDefaults
ResetSeed(p) ==
    /\ spc[p] = "rst_seed"
    /\ LET d == DefaultSettings[idx[p]] IN
       \E getOk, setOk \in BOOLEAN :
        IF ~getOk \/ (GetSettingValue(store, d.key) = <<>> /\ ~setOk)
        THEN /\ slast' = SEvent("ResetToDefaults", "-", "-", "InitializeDefaultSettings", TRUE, TRUE)
             /\ mu' = NoHolder
             /\ SFinish(p)
             /\ UNCHANGED store
        ELSE /\ store' = IF GetSettingValue(store, d.key) = <<>>
                         THEN SetSetting(store, d.key, d.value) ELSE store
             /\ slast' = TableWrite
             /\ IF idx[p] = Len(DefaultSettings)
                THEN /\ spc' = [spc EXCEPT ![p] = "load"]
                     /\ caller' = [caller EXCEPT ![p] = "ResetToDefaults"]
                     /\ UNCHANGED idx
                ELSE /\ idx' = [idx EXCEPT ![p] = @ + 1]
                     /\ UNCHANGED <<spc, caller>>
             /\ UNCHANGED <<mu, arg, todo>>
    /\ UNCHANGED <<cache, loadedFrom>>

\* ImportSettings: Lock, then the loop over the batch (or straight to the
\* reload when the batch is empty)
ImportBegin(p, batch) ==
    /\ spc[p] = "idle"
    /\ p \in scenario.procs /\ batch \subseteq scenario.keys
    /\ mu = NoHolder
    /\ mu' = WriteLocked(p)
    /\ todo' = [todo EXCEPT ![p] = batch]
    /\ spc' = [spc EXCEPT ![p] = IF batch = {} THEN "load" ELSE "imp_write"]
    /\ caller' = [caller EXCEPT ![p] = "ImportSettings"]
    /\ UNCHANGED <<store, cache, arg, idx, loadedFrom, slast>>

\* ImportSettings: one db.SetSetting of the loop (map order is arbitrary);
\* a failure is logged and the loop goes on, then LoadSettings is called
ImportWrite(p, k, v) ==
    /\ spc[p] = "imp_write"
    /\ k \in todo[p]
    /\ \E ok \in BOOLEAN :
        /\ store' = IF ok THEN SetSetting(store, k, Serialize(k, v)) ELSE store
        /\ slast' = [NoSLast EXCEPT !.op = "import", !.proc = p, !.key = k, !.err = ~ok,
                                    !.storeFailed = ~ok, !.result = Serialize(k, v)]
    /\ todo' = [todo EXCEPT ![p] = @ \ {k}]
    /\ spc' = [spc EXCEPT ![p] = IF todo[p] = {k} THEN "load" ELSE "imp_write"]
    /\ UNCHANGED <<cache, mu, caller, arg, idx, loadedFrom>>

\* handleAdminSettings, PUT: the batch is decoded (an empty batch goes
\* straight to the reload)
BulkBegin(p, batch) ==
    /\ spc[p] = "idle"
    /\ p \in scenario.procs /\ batch \subseteq scenario.keys
    /\ todo' = [todo EXCEPT ![p] = batch]
    /\ spc' = [spc EXCEPT ![p] = IF batch = {} THEN "load" ELSE "bulk_write"]
    /\ caller' = [caller EXCEPT ![p] = "handleAdminSettings"]
    /\ UNCHANGED <<store, cache, mu, arg, idx, loadedFrom, slast>>

\* handleAdminSettings, PUT: one round of the loop (map order is arbitrary).
\* A key whose metadata cannot be read is skipped; a failed db.SetSetting
\* ends the request with 500; after the last key ReloadSettings is called
BulkWrite(p, k, v) ==
    /\ spc[p] = "bulk_write"
    /\ k \in todo[p]
    /\ \E getOk, setOk \in BOOLEAN :
        IF getOk /\ ~setOk
        THEN /\ slast' = SEvent("handleAdminSettings", "-", k, "SetSetting", TRUE, TRUE)
             /\ SFinish(p)
             /\ UNCHANGED store
        ELSE /\ store' = IF getOk THEN SetSetting(store, k, Serialize(k, v)) ELSE store
             /\ slast' = TableWrite
             /\ todo' = [todo EXCEPT ![p] = @ \ {k}]
             /\ spc' = [spc EXCEPT ![p] = IF todo[p] = {k} THEN "load" ELSE "bulk_write"]
             /\ UNCHANGED <<caller, arg, idx>>
    /\ UNCHANGED <<cache, mu, loadedFrom>>

\* the table as persisted, and the manager NewSettingsManager built from it
InitSettings ==
    /\ store \in { st \in [Keys -> UNION {{Row(Serialize(k, v)) : v \in ValuesOf(k)} : k \in Keys}] :
                     \A k \in Keys :
                        IF k \in scenario.keys
                        THEN \E v \in ValuesOf(k) : st[k] = Row(Serialize(k, v))
                        ELSE st[k] = DefaultStore[k] }
    /\ cache \in { store, EmptyMap }
    /\ loadedFrom = cache
    /\ mu = NoHolder
    /\ spc = [p \in Procs |-> "idle"]
    /\ caller = [p \in Procs |-> "-"]
    /\ arg = [p \in Procs |-> NoAfter]
    /\ todo = [p \in Procs |-> {}]
    /\ idx = [p \in Procs |-> 0]
    /\ slast = NoSLast

SettingsStep ==
    \/ \E p \in Procs, k \in Keys : \E v \in ValuesOf(k) : UpdateSetting(p, k, v)
    \/ \E p \in Procs : ReloadSettings(p)
    \/ \E p \in Procs : LoadSettings(p)
    \/ \E p \in Procs, k \in Keys : GetSetting(p, k)
    \/ \E p \in Procs : CallGetCORS(p)
    \/ \E p \in Procs : ResetBegin(p)
    \/ \E p \in Procs, k \in Keys : ResetDelete(p, k)
    \/ \E p \in Procs : ResetSeed(p)
    \/ \E p \in Procs, batch \in SUBSET Keys : ImportBegin(p, batch)
    \/ \E p \in Procs, k \in Keys : \E v \in ValuesOf(k) : ImportWrite(p, k, v)

\* the administrative writes of the settings handlers
AdminStep ==
    \/ \E p \in Procs, batch \in SUBSET Keys : BulkBegin(p, batch)
    \/ \E p \in Procs, k \in Keys : \E v \in ValuesOf(k) : BulkWrite(p, k, v)
    \/ \E p \in Procs, k \in Keys : \E v \in ValuesOf(k) : UpdateSetting(p, k, v)
    \/ \E p \in Procs : LoadSettings(p)
    \/ \E p \in Procs : ResetBegin(p)
    \/ \E p \in Procs, k \in Keys : ResetDelete(p, k)
    \/ \E p \in Procs : ResetSeed(p)

(***************************************************************************)
(* Properties of the settings manager.                                     *)
(***************************************************************************)
CORSField(r, k) ==
    CASE k = "cors_enabled" -> r.Enabled
      [] k = "cors_allowed_origins" -> r.AllowedOrigins
      [] k = "cors_max_age" -> r.MaxAge

\* C7: the cache is at every moment the complete content the table had at
\* one time (the time of the last successful load), never a mix of two
\* table states, and GetSetting returns the value of that snapshot.
C7_AtomicSnapshot ==
    /\ cache = loadedFrom
    /\ slast.op = "GetSetting" => slast.result = CacheGet(loadedFrom, slast.key)

C7_Witness ==
    /\ slast.stage = "LoadSettings"
    /\ ~slast.err
    /\ slast.changed >= 2
    /\ \E q \in Procs : spc[q] = "load"

\* C8: when the table fails during a reload or an update, the operation
\* returns an error and the cache still is the last snapshot loaded.
C8_StoreErrorKeepsCache ==
    (slast.storeFailed /\ slast.op \in {"ReloadSettings", "UpdateSetting"}) =>
        /\ slast.err
        /\ cache = slast.cacheBefore
        /\ cache = loadedFrom

C8_Witness ==
    /\ slast.op = "UpdateSetting"
    /\ slast.stage = "LoadSettings"
    /\ slast.storeFailed
    /\ cache # EmptyMap
    /\ cache[slast.key] # store[slast.key]

\* C9: after UpdateSetting(key, serialize(v)) succeeded and reloaded the
\* cache, with no other write to the table since, GetSetting(key) returns
\* serialize(v) and the typed accessor of the key's kind returns v.
C9_RoundTrip ==
    /\ (slast.op = "GetSetting" /\ slast.after.valid /\ slast.key = slast.after.key) =>
          slast.result = Serialize(slast.after.key, slast.after.typed)
    /\ (slast.op = "GetCORS" /\ slast.after.valid /\ slast.readOk) =>
          CORSField(slast.result, slast.after.key) = slast.after.typed

C11_ResetIdempotent ==
    \A p \in Procs :
        (spc[p] = "load" /\ caller[p] = "ResetToDefaults") => ENABLED LoadSettings(p)

\* C29: an import is best-effort and ends with a reload: a key whose write
\* succeeds is in the table, a key whose write fails does not end the
\* import, and once every key of the batch has been tried the reload of the
\* cache can proceed, so that the import returns with the written keys cached.
C29_ImportBestEffort ==
    /\ slast.op = "import" =>
          /\ ~slast.err => store[slast.key] = Row(slast.result)
          /\ spc[slast.proc] \in {"imp_write", "load"}
          /\ caller[slast.proc] = "ImportSettings"
    /\ \A p \in Procs :
          (spc[p] = "load" /\ caller[p] = "ImportSettings") => ENABLED LoadSettings(p)

\* C12: reads on the request path are served from the in-memory snapshot:
\* GetSetting returns the cached value, and GetCORS, when its reads succeed,
\* returns what the snapshot of the last load holds, whatever was written
\* to the table since.
C12_ReadsFromSnapshot ==
    /\ slast.op = "GetSetting" => slast.result = CacheGet(cache, slast.key)
    /\ (slast.op = "GetCORS" /\ slast.readOk) =>
          slast.result = GetCORS(loadedFrom, [i \in 1..3 |-> TRUE])

(***************************************************************************)
(* The typed accessors of the settings table, called on rows of any        *)
(* content: UpdateSetting and db.SetSetting store whatever string they get.*)
(***************************************************************************)
RawValues ==
    { <<>>,
      <<"t", "r", "u", "e">>, <<"f", "a", "l", "s", "e">>, <<"y", "e", "s">>,
      <<"3", "6", "0", "0">>, <<"-", "1">>, <<"1", "2", "x">>,
      <<"[", "]">>, <<"n", "u", "l", "l">>,
      <<"[", "\"", "*", "\"", "]">>, <<"[", "\"", "*", "\"">> }

NoCall == [fn |-> "none", key |-> "-", row |-> NoRow, dbOk |-> TRUE, def |-> FALSE,
           result |-> FALSE]

VARIABLES
    acall        \* history: the latest typed accessor call and what it returned

accVars == <<acall>>

\* db.SetSetting with an arbitrary string
SetRaw(k, v) ==
    /\ store' = SetSetting(store, k, v)
    /\ acall' = NoCall

\* db.DeleteSetting of an existing row
DeleteRow(k) ==
    /\ store[k].present
    /\ store' = DeleteSetting(store, k).table
    /\ acall' = NoCall

CallGetBoolSetting(k, def) ==
    /\ \E ok \in BOOLEAN :
        acall' = [fn |-> "GetBoolSetting", key |-> k, row |-> store[k], dbOk |-> ok,
                  def |-> def, result |-> GetBoolSetting(store, k, ok, def)]
    /\ UNCHANGED store

CallGetIntSetting(k, def) ==
    /\ \E ok \in BOOLEAN :
        acall' = [fn |-> "GetIntSetting", key |-> k, row |-> store[k], dbOk |-> ok,
                  def |-> def, result |-> GetIntSetting(store, k, ok, def)]
    /\ UNCHANGED store

CallGetStringArraySetting(k, def) ==
    /\ \E ok \in BOOLEAN :
        acall' = [fn |-> "GetStringArraySetting", key |-> k, row |-> store[k], dbOk |-> ok,
                  def |-> def, result |-> GetStringArraySetting(store, k, ok, def)]
    /\ UNCHANGED store

\* InitializeDefaultSettings from the default at position i on: a default is
\* written when GetSetting returns "" for its key; the read or the write of
\* the default at position failAt fails and ends the call
RECURSIVE SeedFrom(_, _, _)
SeedFrom(st, i, failAt) ==
    IF i > Len(DefaultSettings) THEN [table |-> st, err |-> FALSE]
    ELSE IF i = failAt THEN [table |-> st, err |-> TRUE]
    ELSE SeedFrom(IF GetSettingValue(st, DefaultSettings[i].key) = <<>>
                  THEN SetSetting(st, DefaultSettings[i].key, DefaultSettings[i].value)
                  ELSE st,
                  i + 1, failAt)

\* db.InitializeDefaultSettings: the tables it can leave, with its error
InitializeDefaultSettings(st) == {SeedFrom(st, 1, f) : f \in 0..Len(DefaultSettings)}

\* initSchema or ResetToDefaults calls InitializeDefaultSettings
CallInitializeDefaultSettings ==
    \E r \in InitializeDefaultSettings(store) :
        /\ store' = r.table
        /\ acall' = [fn |-> "InitializeDefaultSettings", before |-> store, err |-> r.err]

\* the table between two openings of the database: rows are written,
\* deleted, and the defaults are seeded
SeedingStep ==
    \/ \E k \in Keys, v \in RawValues : SetRaw(k, v)
    \/ \E k \in Keys : DeleteRow(k)
    \/ CallInitializeDefaultSettings

InitAccessors ==
    /\ store = DefaultStore
    /\ acall = NoCall

AccessorStep ==
    \/ \E k \in Keys, v \in RawValues : SetRaw(k, v)
    \/ \E k \in Keys : DeleteRow(k)
    \/ \E k \in Keys, def \in BOOLEAN : CallGetBoolSetting(k, def)
    \/ \E k \in Keys, def \in {0, 3600} : CallGetIntSetting(k, def)
    \/ \E k \in Keys, def \in { << <<"*">> >>, << <<"GET">>, <<"POST">> >> } :
          CallGetStringArraySetting(k, def)

\* what the value parses to as the kind the accessor asks for
ParseAs(fn, v) ==
    CASE fn = "GetBoolSetting" -> ParseBool(v)
      [] fn = "GetIntSetting" -> Atoi(v)
      [] fn = "GetStringArraySetting" -> UnmarshalList(v)

\* C13: a typed accessor returns the parsed stored value when the value
\* parses as the requested kind, and the caller's default when the key is
\* absent, the value is empty, the value does not parse, or the read fails.
C13_TypedAccessors ==
    acall.fn # "none" =>
        acall.result =
            IF ~acall.dbOk \/ ~acall.row.present \/ acall.row.value = <<>>
            THEN acall.def
            ELSE IF ParseAs(acall.fn, acall.row.value).ok
            THEN ParseAs(acall.fn, acall.row.value).val
            ELSE acall.def

(***************************************************************************)
(* The rate limiter tiers mounted by setupRoutes.  Time is counted in      *)
(* milliseconds; the limiter clock advances in steps of LimTick up to      *)
(* MaxLimTime, and a bucket is driven at most MaxOver requests past its    *)
(* budget.                                                                 *)
(***************************************************************************)
LimTick == 500
MaxLimTime == 1500
MaxOver == 1

globalRPS == 100
apiRPS == 50
windowLength == 1000

Tiers == {"global", "api"}
Routes == {"web", "api"}

\* the runs explored on the limiter
LimScenarios ==
    { [procs |-> {"g1"}, ids |-> {"ipA"}, routes |-> Routes, ticks |-> FALSE, writes |-> FALSE],
      [procs |-> {"g1"}, ids |-> {"ipA"}, routes |-> {"web"}, ticks |-> TRUE, writes |-> TRUE],
      [procs |-> {"g1"}, ids |-> {"ipA"}, routes |-> {"api"}, ticks |-> TRUE, writes |-> FALSE],
      [procs |-> Procs, ids |-> {"ipA"}, routes |-> {"web"}, ticks |-> FALSE, writes |-> FALSE] }

\* mutant: the API tier is built with the global budget
BudgetShared(t) == globalRPS

\* the budget each tier's limiter is built with
Budget(t) == IF t = "global" THEN globalRPS ELSE apiRPS

\* mutant: the API tier wraps every route
TiersOfAll(route) == <<"global", "api">>

\* the limiter tiers a request to the route passes, outermost first
TiersOf(route) == IF route = "api" THEN <<"global", "api">> ELSE <<"global">>

NoBucket == [exists |-> FALSE, windowStart |-> 0, count |-> 0]

\* the bucket after one more request at time t
NextBucket(b, t) ==
    IF ~b.exists \/ t - b.windowStart >= windowLength
    THEN [exists |-> TRUE, windowStart |-> t, count |-> 1]
    ELSE [b EXCEPT !.count = @ + 1]

\* the request is admitted by the tier whose bucket is now b
Admits(b, t) == b.count <= Budget(t)

VARIABLES
    buckets,       \* tier -> identity -> bucket
    limMu,         \* tier -> holder of the tier's lock, or NoHolder
    lnow,          \* the limiter's clock, milliseconds
    lpc,           \* position of each request goroutine in the limiter chain
    lroute,        \* the route a goroutine's request goes to
    lip,           \* the identity of the request
    lstage,        \* index of the tier the request is at
    lread,         \* the bucket the goroutine read under the lock
    rateSettings,  \* tier -> the rps value the settings hold for the tier
    seen,          \* history: tier -> requests seen, first and latest time
    llast          \* history: the latest decision of a tier or response

limVars == <<buckets, limMu, lnow, lpc, lroute, lip, lstage, lread, rateSettings, seen, llast>>

\* mutant: the tier's lock does not exclude a second holder
LimLockShared(t) == TRUE

\* the tier's lock can be taken
LimCanLock(t) == limMu[t] = NoHolder

\* requests of one identity at one tier: how many in the window that began
\* with the first of them, and when the first and the latest came
NoSeen == [total |-> 0, first |-> 0, latest |-> 0]
SeenNext(sn, t) ==
    IF sn.total = 0 \/ t - sn.first >= windowLength
    THEN [total |-> 1, first |-> t, latest |-> t]
    ELSE [sn EXCEPT !.total = @ + 1, !.latest = t]
NoLLast == [op |-> "none", tier |-> "-", route |-> "-", at |-> 0, admitted |-> FALSE,
            status |-> 0, count |-> 0, seen |-> NoSeen, overlap |-> FALSE,
            passed |-> {}, setting |-> 0]

LimTierOf(p) == TiersOf(lroute[p])[lstage[p]]

LimFinish(p) ==
    /\ lpc' = [lpc EXCEPT ![p] = "idle"]
    /\ lroute' = [lroute EXCEPT ![p] = "-"]
    /\ lip' = [lip EXCEPT ![p] = NoIp]
    /\ lstage' = [lstage EXCEPT ![p] = 0]
    /\ lread' = [lread EXCEPT ![p] = NoBucket]

\* a request arrives for a route and stands before its outermost tier
LimArrive(p, x, route) ==
    /\ lpc[p] = "idle"
    /\ p \in scenario.procs /\ x \in scenario.ids /\ route \in scenario.routes
    /\ lpc' = [lpc EXCEPT ![p] = "enter"]
    /\ lroute' = [lroute EXCEPT ![p] = route]
    /\ lip' = [lip EXCEPT ![p] = x]
    /\ lstage' = [lstage EXCEPT ![p] = 1]
    /\ UNCHANGED <<buckets, limMu, lnow, lread, rateSettings, seen, llast>>

\* the tier's lock is taken and the bucket of the identity resolved
LimEnter(p) ==
    /\ lpc[p] = "enter"
    /\ LimCanLock(LimTierOf(p))
    /\ NextBucket(buckets[LimTierOf(p)][lip[p]], lnow).count <= Budget(LimTierOf(p)) + MaxOver
    /\ limMu' = [limMu EXCEPT ![LimTierOf(p)] = p]
    /\ lread' = [lread EXCEPT ![p] = buckets[LimTierOf(p)][lip[p]]]
    /\ lpc' = [lpc EXCEPT ![p] = "count"]
    /\ UNCHANGED <<buckets, lnow, lroute, lip, lstage, rateSettings, seen, llast>>

\* reset or increment, unlock, then 429 or on to the next stage or handler
LimCount(p) ==
    /\ lpc[p] = "count"
    /\ LET t == LimTierOf(p)
           b == NextBucket(lread[p], lnow)
           ok == Admits(b, t)
           sn == SeenNext(seen[t][lip[p]], lnow)
           final == lstage[p] = Len(TiersOf(lroute[p]))
       IN  /\ buckets' = [buckets EXCEPT ![t][lip[p]] = b]
           /\ limMu' = [limMu EXCEPT ![t] = NoHolder]
           /\ seen' = [seen EXCEPT ![t][lip[p]] = sn]
           /\ llast' = [NoLLast EXCEPT !.op = "decide", !.tier = t, !.route = lroute[p],
                            !.at = lnow, !.admitted = ok,
                            !.status = IF ~ok THEN 429 ELSE IF final THEN 200 ELSE 0,
                            !.count = b.count, !.seen = seen[t][lip[p]],
                            !.overlap = \E q \in Procs \ {p} : lpc[q] # "idle",
                            !.passed = {TiersOf(lroute[p])[i] : i \in 1..(lstage[p] - 1)},
                            !.setting = rateSettings[t]]
           /\ IF ok /\ ~final
              THEN /\ lstage' = [lstage EXCEPT ![p] = @ + 1]
                   /\ lpc' = [lpc EXCEPT ![p] = "enter"]
                   /\ lread' = [lread EXCEPT ![p] = NoBucket]
                   /\ UNCHANGED <<lroute, lip>>
              ELSE LimFinish(p)
    /\ UNCHANGED <<lnow, rateSettings>>

\* time passes
LimitTime ==
    /\ scenario.ticks
    /\ lnow + LimTick <= MaxLimTime
    /\ lnow' = lnow + LimTick
    /\ UNCHANGED <<buckets, limMu, lpc, lroute, lip, lstage, lread, rateSettings, seen, llast>>

\* an administrator sets rate_limit_<tier>_rps and the settings are reloaded
UpdateRateSetting(t, v) ==
    /\ scenario.writes
    /\ rateSettings[t] # v
    /\ rateSettings' = [rateSettings EXCEPT ![t] = v]
    /\ UNCHANGED <<buckets, limMu, lnow, lpc, lroute, lip, lstage, lread, seen, llast>>

\* the defaults of rate_limit_global_rps and rate_limit_api_rps
DefaultRateSetting(t) == IF t = "global" THEN 100 ELSE 50

InitLimiter ==
    /\ buckets = [t \in Tiers |-> [x \in Identities |-> NoBucket]]
    /\ limMu = [t \in Tiers |-> NoHolder]
    /\ lnow = 0
    /\ lpc = [p \in Procs |-> "idle"]
    /\ lroute = [p \in Procs |-> "-"]
    /\ lip = [p \in Procs |-> NoIp]
    /\ lstage = [p \in Procs |-> 0]
    /\ lread = [p \in Procs |-> NoBucket]
    /\ rateSettings = [t \in Tiers |-> DefaultRateSetting(t)]
    /\ seen = [t \in Tiers |-> [x \in Identities |-> NoSeen]]
    /\ llast = NoLLast

LimiterStep ==
    \/ \E p \in Procs, x \in Identities, route \in Routes : LimArrive(p, x, route)
    \/ \E p \in Procs : LimEnter(p)
    \/ \E p \in Procs : LimCount(p)
    \/ LimitTime
    \/ \E t \in Tiers, v \in {1, globalRPS} : UpdateRateSetting(t, v)

C15_ExactCount ==
    /\ \A t \in Tiers, x \in Identities : buckets[t][x].count = seen[t][x].total
    /\ (llast.op = "decide" /\ llast.seen.total < globalRPS /\ llast.tier = "global")
          => llast.admitted

C15_Witness ==
    /\ llast.op = "decide"
    /\ llast.overlap
    /\ llast.admitted
    /\ llast.count = 2
    /\ llast.seen.total = 1

\* C16: a request to an API route reaches its handler only when the global
\* tier and then the API tier admitted it; a request to another route never
\* comes before the API tier; and a tier that rejects answers 429 and the
\* request ends there.
C16_LayeredInv ==
    /\ (llast.op = "decide" /\ llast.status = 200) =>
          /\ llast.admitted
          /\ llast.passed \cup {llast.tier} =
                IF llast.route = "api" THEN {"global", "api"} ELSE {"global"}
    /\ (llast.op = "decide" /\ llast.route = "api" /\ llast.tier = "api") =>
          llast.passed = {"global"}
    /\ (llast.op = "decide" /\ llast.route # "api") => llast.tier # "api"
    /\ (llast.op = "decide" /\ ~llast.admitted) => llast.status = 429

C16_RejectEnds ==
    (llast' # llast /\ llast'.status = 429) =>
        \E p \in Procs : lpc[p] = "count" /\ lpc'[p] = "idle"

C16_WebLeavesApi ==
    (llast' # llast /\ llast'.route = "web") => buckets'["api"] = buckets["api"]

C16_Layered ==
    []C16_LayeredInv /\ [][C16_RejectEnds /\ C16_WebLeavesApi]_limVars

C16_Witness ==
    /\ llast.op = "decide"
    /\ llast.route = "api"
    /\ llast.tier = "global"
    /\ llast.status = 429
    /\ buckets["api"]["ipA"].count < apiRPS
    /\ buckets["api"]["ipA"].count > 0

\* C17: the budget a tier enforces is the value the settings hold for the
\* tier: a request is admitted exactly when its number in the window is not
\* above rate_limit_<tier>_rps.
C17_BudgetFromSettings ==
    llast.op = "decide" => (llast.admitted <=> llast.count <= llast.setting)

(***************************************************************************)
(* The scheduler: AddTask validates a five-field schedule and appends the  *)
(* task; once a minute checkTasks evaluates shouldRun for every task.      *)
(* A schedule is a sequence of characters.  At most MaxTasks tasks are     *)
(* registered in a run.                                                    *)
(***************************************************************************)
MaxTasks == 2

\* no error
Nil == "nil"

\* the table of validateCronSchedule: name and bounds of each field
CronFields ==
    << [name |-> "minute", min |-> 0, max |-> 59, err |-> "invalid minute field"],
       [name |-> "hour", min |-> 0, max |-> 23, err |-> "invalid hour field"],
       [name |-> "day", min |-> 1, max |-> 31, err |-> "invalid day field"],
       [name |-> "month", min |-> 1, max |-> 12, err |-> "invalid month field"],
       [name |-> "weekday", min |-> 0, max |-> 6, err |-> "invalid weekday field"] >>

\* strings.Contains(s, c) for a one-character c
Contains(s, c) == \E i \in 1..Len(s) : s[i] = c

\* strings.Split(s, c) for a one-character separator
RECURSIVE Split(_, _)
Split(s, c) ==
    IF ~Contains(s, c) THEN <<s>>
    ELSE LET i == CHOOSE j \in 1..Len(s) : s[j] = c /\ \A k \in 1..(j - 1) : s[k] # c
         IN  <<SubSeq(s, 1, i - 1)>> \o Split(SubSeq(s, i + 1, Len(s)), c)

\* strings.TrimSpace
RECURSIVE TrimSpace(_)
TrimSpace(s) ==
    IF s = <<>> THEN s
    ELSE IF s[1] = " " THEN TrimSpace(Tail(s))
    ELSE IF s[Len(s)] = " " THEN TrimSpace(SubSeq(s, 1, Len(s) - 1))
    ELSE s

\* strings.Fields: the maximal runs of non-space characters
RECURSIVE Fields(_)
Fields(s) ==
    IF s = <<>> THEN <<>>
    ELSE IF s[1] = " " THEN Fields(Tail(s))
    ELSE LET n == CHOOSE j \in 1..Len(s) :
                      /\ \A k \in 1..j : s[k] # " "
                      /\ (j = Len(s) \/ s[j + 1] = " ")
         IN  <<SubSeq(s, 1, n)>> \o Fields(SubSeq(s, n + 1, Len(s)))

\* the % of Go: the remainder has the sign of the dividend
GoRem(a, b) == IF a >= 0 THEN a % b ELSE -((-a) % b)

\* mutant: a step of zero passes validation
StepValidLax(step) == step.ok /\ step.val >= 0

\* the step of a stride is a positive integer
StepValid(step) == step.ok /\ step.val > 0

\* validateField: Nil, or the error of the first check that fails
validateField(field, min, max) ==
    IF field = <<"*">> THEN Nil
    ELSE IF Contains(field, "-")
    THEN LET parts == Split(field, "-")
         IN  IF Len(parts) # 2 THEN "invalid range format"
             ELSE LET start == Atoi(parts[1])
                      end == Atoi(parts[2])
                  IN  IF ~start.ok \/ ~end.ok THEN "invalid range values"
                      ELSE IF \/ start.val < min \/ start.val > max
                              \/ end.val < min \/ end.val > max
                              \/ start.val > end.val
                      THEN "range out of bounds"
                      ELSE Nil
    ELSE IF Contains(field, ",")
    THEN LET parts == Split(field, ",")
             v(i) == Atoi(TrimSpace(parts[i]))
             bad == {i \in 1..Len(parts) : ~v(i).ok \/ v(i).val < min \/ v(i).val > max}
         IN  IF bad = {} THEN Nil
             ELSE LET i == CHOOSE j \in bad : \A k \in bad : j <= k
                  IN  IF ~v(i).ok THEN "invalid list value"
                      ELSE "list value out of bounds"
    ELSE IF Contains(field, "/")
    THEN LET parts == Split(field, "/")
         IN  IF Len(parts) # 2 THEN "invalid step format"
             ELSE LET step == Atoi(parts[2])
                  IN  IF ~StepValid(step) THEN "invalid step value"
                      ELSE IF parts[1] # <<"*">>
                      THEN LET start == Atoi(parts[1])
                           IN  IF ~start.ok THEN "invalid step start value"
                               ELSE IF start.val < min \/ start.val > max
                               THEN "step start out of bounds"
                               ELSE Nil
                      ELSE Nil
    ELSE LET v == Atoi(field)
         IN  IF ~v.ok THEN "invalid value"
             ELSE IF v.val < min \/ v.val > max THEN "value out of bounds"
             ELSE Nil

\* validateCronSchedule: Nil, or the error of the first field that fails
validateCronSchedule(schedule) ==
    LET parts == Fields(schedule)
    IN  IF Len(parts) # 5 THEN "schedule must have 5 fields"
        ELSE LET bad == {i \in 1..5 :
                            validateField(parts[i], CronFields[i].min, CronFields[i].max) # Nil}
             IN  IF bad = {} THEN Nil
                 ELSE LET i == CHOOSE j \in bad : \A k \in bad : j <= k
                      IN  CronFields[i].err

\* mutant: a range matches only strictly inside its ends
InRangeOpen(value, start, end) == value > start /\ value < end

\* the value lies in the range start-end, ends included
InRange(value, start, end) == value >= start /\ value <= end

\* matchField: the field of a schedule matches the value of the clock
matchField(field, value, min, max) ==
    IF field = <<"*">> THEN TRUE
    ELSE IF Contains(field, "-")
    THEN LET parts == Split(field, "-")
         IN  /\ Len(parts) = 2
             /\ Atoi(parts[1]).ok /\ Atoi(parts[2]).ok
             /\ InRange(value, Atoi(parts[1]).val, Atoi(parts[2]).val)
    ELSE IF Contains(field, ",")
    THEN LET parts == Split(field, ",")
         IN  \E i \in 1..Len(parts) :
                 /\ Atoi(TrimSpace(parts[i])).ok
                 /\ Atoi(TrimSpace(parts[i])).val = value
    ELSE IF Contains(field, "/")
    THEN LET parts == Split(field, "/")
         IN  /\ Len(parts) = 2
             /\ Atoi(parts[2]).ok /\ Atoi(parts[2]).val > 0
             /\ IF parts[1] = <<"*">>
                THEN GoRem(value, Atoi(parts[2]).val) = 0
                ELSE /\ Atoi(parts[1]).ok
                     /\ value >= Atoi(parts[1]).val
                     /\ GoRem(value - Atoi(parts[1]).val, Atoi(parts[2]).val) = 0
    ELSE Atoi(field).ok /\ Atoi(field).val = value

\* mutant: the weekday is not looked at
shouldRunNoWeekday(schedule, t) ==
    LET parts == Fields(schedule)
    IN  /\ Len(parts) = 5
        /\ \A i \in 1..4 : matchField(parts[i], t[i], CronFields[i].min, CronFields[i].max)

\* shouldRun: the schedule is due at the time t = <<minute, hour, day, month, weekday>>
shouldRun(schedule, t) ==
    LET parts == Fields(schedule)
    IN  /\ Len(parts) = 5
        /\ \A i \in 1..5 : matchField(parts[i], t[i], CronFields[i].min, CronFields[i].max)

\* the schedules and clock values of the runs explored.  A schedule is
\* "0 3 * * 0" with one field replaced, or one of a few others; the clock
\* is minute 0 of hour 3 on a Sunday, the first of January, with one
\* component replaced.
NumPool == {0, 1, 2, 6, 7, 12, 13, 23, 24, 31, 32, 59, 60}
Operands == {Itoa(n) : n \in NumPool} \cup {<<>>, <<"x">>}
LeftOperands == {<<"*">>, <<>>, <<"0">>, <<"1">>, <<"7">>, <<"6", "0">>}
FieldPool ==
    {<<"*">>} \cup Operands
    \cup {a \o <<c>> \o b : a \in LeftOperands, b \in Operands, c \in {"-", ",", "/"}}
    \cup { <<"1", "-", "2", "-", "6">>, <<"1", ",", "2", ",", "6">>, <<"1", "/", "2", "/", "6">>,
           <<"1", "-", "6", ",", "7">>, <<"1", ",", "6", "-", "7">>, <<"1", "-", "6", "/", "2">>,
           <<"*", "/", "2", ",", "6">>, <<"*", "*">>, <<"+", "1">>, <<"0", "7">>,
           <<"1", "-", "+", "6">>, <<"*", "/", "+", "6">> }
BaseFields == << <<"0">>, <<"3">>, <<"*">>, <<"*">>, <<"0">> >>
BaseTime == <<0, 3, 1, 1, 0>>

\* strings.Join(fields, " ")
RECURSIVE Join(_)
Join(fs) == IF Len(fs) = 0 THEN <<>>
            ELSE IF Len(fs) = 1 THEN fs[1]
            ELSE fs[1] \o <<" ">> \o Join(Tail(fs))

BaseSchedule == Join(BaseFields)
Sched60 == Join(<< <<"6", "0">>, <<"3">>, <<"*">>, <<"*">>, <<"0">> >>)
SchedStep0 == Join(<< <<"*", "/", "0">>, <<"*">>, <<"*">>, <<"*">>, <<"*">> >>)
SchedFour == Join(SubSeq(BaseFields, 1, 4))
OtherSchedules ==
    { <<>>, <<" ">>, Sched60, SchedStep0, SchedFour,
      Join(BaseFields \o << <<"*">> >>),
      <<" ", " ">> \o BaseSchedule \o <<" ">>,
      Join(<< <<"0">>, <<>>, <<"3">>, <<"*">>, <<"*">>, <<"0">> >>) }
TaskNames == {"job1", "job2"}

\* a run registers tasks only (any schedule, no clock), or
\* registers one schedule whose replaced field is valid and lets the clock
\* run through the range of the replaced field
SchedScenarios ==
    { [schedule |-> Join([BaseFields EXCEPT ![i] = f]), pos |-> i, names |-> {"job1"},
       offers |-> {Join([BaseFields EXCEPT ![i] = f]), BaseSchedule}, ticks |-> FALSE] :
          i \in 1..5, f \in FieldPool }
    \cup
    { [schedule |-> s, pos |-> 1, names |-> TaskNames,
       offers |-> {s, BaseSchedule}, ticks |-> FALSE] : s \in OtherSchedules }
    \cup
    { [schedule |-> Join([BaseFields EXCEPT ![x[1]] = x[2]]), pos |-> x[1], names |-> {"job1"},
       offers |-> {Join([BaseFields EXCEPT ![x[1]] = x[2]])}, ticks |-> TRUE] :
          x \in {y \in (1..5) \X FieldPool :
                     validateField(y[2], CronFields[y[1]].min, CronFields[y[1]].max) = Nil} }
    \cup
    { [schedule |-> BaseSchedule, pos |-> i, names |-> {"job1"},
       offers |-> {BaseSchedule}, ticks |-> TRUE] : i \in 1..5 }

NoTLast == [op |-> "none", name |-> "-", schedule |-> <<>>, err |-> Nil, verr |-> Nil,
            pre |-> <<>>, at |-> BaseTime, due |-> <<>>]

VARIABLES
    tasks,       \* s.tasks: the registered tasks, in order of registration
    clock,       \* the time the ticker delivers next: <<minute, hour, day, month, weekday>>
    tlast        \* history: the latest scheduler operation and what it returned

schedVars == <<tasks, clock, tlast>>

\* mutant: the task is appended before the schedule is validated
AddTaskAppendFirst(name, schedule) ==
    /\ Len(tasks) < MaxTasks
    /\ name \in scenario.names /\ schedule \in scenario.offers
    /\ tasks' = Append(tasks, [Name |-> name, Schedule |-> schedule])
    /\ tlast' = [NoTLast EXCEPT !.op = "AddTask", !.name = name, !.schedule = schedule,
                     !.verr = validateCronSchedule(schedule),
                     !.err = IF validateCronSchedule(schedule) = Nil THEN Nil
                             ELSE "invalid schedule format",
                     !.pre = tasks]
    /\ UNCHANGED clock

\* Scheduler.AddTask
AddTask(name, schedule) ==
    /\ Len(tasks) < MaxTasks
    /\ name \in scenario.names /\ schedule \in scenario.offers
    /\ LET verr == validateCronSchedule(schedule)
       IN  /\ tasks' = IF verr # Nil THEN tasks
                       ELSE Append(tasks, [Name |-> name, Schedule |-> schedule])
           /\ tlast' = [NoTLast EXCEPT !.op = "AddTask", !.name = name,
                            !.schedule = schedule, !.verr = verr,
                            !.err = IF verr = Nil THEN Nil ELSE "invalid schedule format",
                            !.pre = tasks]
    /\ UNCHANGED clock

\* Scheduler.checkTasks: which of the tasks are due at the time t
checkTasks(t) == [i \in 1..Len(tasks) |-> shouldRun(tasks[i].Schedule, t)]

\* Scheduler.run: the ticker delivers the time and the tasks are checked;
\* the clock of a run moves on in the field the run replaced
run ==
    /\ scenario.ticks
    /\ clock[scenario.pos] <= CronFields[scenario.pos].max
    /\ tlast' = [NoTLast EXCEPT !.op = "checkTasks", !.at = clock, !.due = checkTasks(clock)]
    /\ clock' = [clock EXCEPT ![scenario.pos] = @ + 1]
    /\ UNCHANGED tasks

\* the scheduler at rest
IdleScheduler ==
    /\ tasks = <<>>
    /\ clock = BaseTime
    /\ tlast = NoTLast

InitScheduler ==
    /\ tasks = <<>>
    /\ clock = [BaseTime EXCEPT ![scenario.pos] = CronFields[scenario.pos].min]
    /\ tlast = NoTLast

SchedulerStep ==
    \/ \E name \in TaskNames, schedule \in scenario.offers : AddTask(name, schedule)
    \/ run

(***************************************************************************)
(* Properties of the scheduler.  The forms a field may take are stated     *)
(* here by the position of the separator, not by the order of the checks   *)
(* in validateField.                                                       *)
(***************************************************************************)
\* an integer of a field is a decimal numeral without a minus sign
IsNumeral(s) == Atoi(s).ok /\ s[1] # "-"
InBounds(s, bd) == IsNumeral(s) /\ Atoi(s).val >= bd.min /\ Atoi(s).val <= bd.max
Before(f, i) == SubSeq(f, 1, i - 1)
After(f, i) == SubSeq(f, i + 1, Len(f))
IsAny(f) == f = <<"*">>
IsExact(f, bd) == InBounds(f, bd)
IsRange(f, bd, i) ==
    /\ f[i] = "-"
    /\ InBounds(Before(f, i), bd) /\ InBounds(After(f, i), bd)
    /\ Atoi(Before(f, i)).val <= Atoi(After(f, i)).val
IsList(f, bd) ==
    /\ Contains(f, ",")
    /\ \A k \in 1..Len(Split(f, ",")) : InBounds(Split(f, ",")[k], bd)
IsStride(f, bd, i) ==
    /\ f[i] = "/"
    /\ IsNumeral(After(f, i)) /\ Atoi(After(f, i)).val > 0
    /\ (Before(f, i) = <<"*">> \/ InBounds(Before(f, i), bd))
WellFormedField(f, bd) ==
    \/ IsAny(f)
    \/ IsExact(f, bd)
    \/ \E i \in 1..Len(f) : IsRange(f, bd, i)
    \/ IsList(f, bd)
    \/ \E i \in 1..Len(f) : IsStride(f, bd, i)
WellFormedSchedule(s) ==
    /\ Len(Fields(s)) = 5
    /\ \A i \in 1..5 : WellFormedField(Fields(s)[i], CronFields[i])

\* C18: AddTask with a malformed schedule returns an error and leaves the
\* task list exactly as it was; AddTask with a valid schedule returns no
\* error and appends exactly one task, the one it was given.
C18_AddTaskAllOrNothing ==
    tlast.op = "AddTask" =>
        IF WellFormedSchedule(tlast.schedule)
        THEN /\ tlast.err = Nil
             /\ tasks = Append(tlast.pre, [Name |-> tlast.name, Schedule |-> tlast.schedule])
        ELSE /\ tlast.err # Nil
             /\ tasks = tlast.pre

C18_Witness ==
    /\ tlast.op = "AddTask"
    /\ ~WellFormedSchedule(tlast.schedule)
    /\ tlast.err # Nil
    /\ tasks # <<>>
    /\ tasks = tlast.pre

\* C19: validateCronSchedule accepts a schedule exactly when it has five
\* whitespace-separated fields and every field is *, an in-bounds integer,
\* an in-bounds range start-end with start <= end, a list of in-bounds
\* integers, or a stride with a positive step whose start is * or in
\* bounds; "60 3 * * 0", "*/0 * * * *" and four-field schedules are rejected.
C19_ValidateExactly ==
    tlast.op = "AddTask" =>
        /\ tlast.verr = Nil <=> WellFormedSchedule(tlast.schedule)
        /\ tlast.schedule \in {Sched60, SchedStep0, SchedFour} => tlast.verr # Nil
        /\ Len(Fields(tlast.schedule)) = 4 => tlast.verr # Nil

C19_Witness ==
    /\ tlast.op = "AddTask"
    /\ tlast.schedule = SchedStep0
    /\ tlast.verr = "invalid minute field"

\* what the fields other than start/step match
MatchesPlain(f, bd, v) ==
    \/ IsAny(f)
    \/ IsExact(f, bd) /\ Atoi(f).val = v
    \/ \E i \in 1..Len(f) :
          IsRange(f, bd, i) /\ Atoi(Before(f, i)).val <= v /\ v <= Atoi(After(f, i)).val
    \/ IsList(f, bd) /\ \E k \in 1..Len(Split(f, ",")) : Atoi(Split(f, ",")[k]).val = v
    \/ \E i \in 1..Len(f) :
          /\ IsStride(f, bd, i) /\ Before(f, i) = <<"*">>
          /\ GoRem(v, Atoi(After(f, i)).val) = 0

\* start/step: the value is a whole number of steps away from start
StepsFromStart(f, bd, v, i) ==
    /\ IsStride(f, bd, i) /\ Before(f, i) # <<"*">>
    /\ GoRem(v - Atoi(Before(f, i)).val, Atoi(After(f, i)).val) = 0

MatchesAsStated(f, bd, v) ==
    MatchesPlain(f, bd, v) \/ \E i \in 1..Len(f) : StepsFromStart(f, bd, v, i)

MatchesFromStart(f, bd, v) ==
    \/ MatchesPlain(f, bd, v)
    \/ \E i \in 1..Len(f) : StepsFromStart(f, bd, v, i) /\ v >= Atoi(Before(f, i)).val

\* C20 as stated: every validated field matches a value of its range exactly
\* when: * always; an integer on equality; a-b when a <= value <= b; a list
\* on membership; */step when value % step = 0; start/step when
\* (value - start) % step = 0.
C20_MatchAsStated ==
    tlast.op = "checkTasks" =>
        \A k \in 1..Len(tasks) :
            tlast.due[k] =
                \A i \in 1..5 : MatchesAsStated(Fields(tasks[k].Schedule)[i], CronFields[i],
                                                tlast.at[i])

\* C20, amended: as stated, except that start/step matches only values not
\* below start: value >= start and (value - start) % step = 0.
C20_MatchFromStart ==
    tlast.op = "checkTasks" =>
        \A k \in 1..Len(tasks) :
            tlast.due[k] =
                \A i \in 1..5 : MatchesFromStart(Fields(tasks[k].Schedule)[i], CronFields[i],
                                                 tlast.at[i])

C20_Witness ==
    /\ tlast.op = "checkTasks"
    /\ tasks # <<>>
    /\ ~tlast.due[1]
    /\ LET f == Fields(tasks[1].Schedule)[scenario.pos]
           v == tlast.at[scenario.pos]
       IN  \E i \in 1..Len(f) :
               /\ StepsFromStart(f, CronFields[scenario.pos], v, i)
               /\ v < Atoi(Before(f, i)).val

(***************************************************************************)
(* The middleware chain of setupRoutes.  A request passes the middlewares  *)
(* of the router in the order of their registration, then those of its     *)
(* route, then the handler; each stage forwards or ends the request.       *)
(* Besides the requests followed stage by stage, up to MaxOthers further   *)
(* requests come and go downstream of the throttle, on top of the          *)
(* long-running requests a run starts with.                                *)
(***************************************************************************)
MaxOthers == 2

maxConcurrentRequests == 1000

\* mutant: the throttle is registered after the rate limiter
MiddlewaresThrottleLate ==
    << "recoverMiddleware", "securityHeadersMiddleware", "corsMiddleware",
       "requestSizeLimitMiddleware", "globalRateLimitMiddleware", "throttleMiddleware",
       "loggingMiddleware" >>

\* router.Use(...), in the order of setupRoutes
Middlewares ==
    << "recoverMiddleware", "securityHeadersMiddleware", "corsMiddleware",
       "requestSizeLimitMiddleware", "throttleMiddleware", "globalRateLimitMiddleware",
       "loggingMiddleware" >>

\* the stages of a request to a web route, an /api/v1 route, or a handler
\* wrapped by adminAuthMiddleware
ChainOf(route) ==
    Middlewares
        \o (IF route = "api" THEN <<"apiRateLimitMiddleware">>
            ELSE IF route = "admin" THEN <<"authMiddleware">> ELSE <<>>)
        \o <<"handler">>

ChainScenarios ==
    { [procs |-> {"g1"}, base |-> 0, routes |-> {"web", "api", "admin"},
       methods |-> {"GET", "OPTIONS"}],
      [procs |-> Procs, base |-> maxConcurrentRequests - 1, routes |-> {"web"},
       methods |-> {"GET"}],
      [procs |-> {"g1"}, base |-> maxConcurrentRequests - 2, routes |-> {"api"},
       methods |-> {"GET"}] }

VARIABLES
    cpc,         \* the stage each followed request stands before; 0 = no request
    creq,        \* its route, method and the cors_enabled it will find
    ctrail,      \* the stages it has run, in order
    holds,       \* it holds a slot of the throttle's semaphore
    others,      \* slots held by the other short requests
    clast        \* history: the latest request that ended

chainVars == <<cpc, creq, ctrail, holds, others, clast>>

NoReq == [route |-> "-", method |-> "-", cors |-> FALSE]
NoCLast == [route |-> "-", method |-> "-", trail |-> <<>>, status |-> 0, by |-> "-",
            inflight |-> 0]

\* len(semaphore): the slots taken
Inflight == scenario.base + others + Cardinality({p \in Procs : holds[p]})

\* mutant: the throttle lets one request more in
throttleLax(inflight) == inflight <= maxConcurrentRequests

\* throttleMiddleware: `case semaphore <- struct{}{}` can proceed
throttleMiddleware(inflight) == inflight < maxConcurrentRequests

\* mutant: a panic of the handler skips the release of the slot
HeldAfterEndNoDefer(held, stage, status) == held /\ stage = "handler" /\ status = 500

\* throttleMiddleware: the deferred `<-semaphore` runs when next.ServeHTTP
\* returns and when a panic unwinds through it
HeldAfterEnd(held, stage, status) == FALSE

Forward == [fwd |-> TRUE, status |-> 0]
End(status) == [fwd |-> FALSE, status |-> status]

\* what a stage can do with a request
Outcomes(stage, req) ==
    CASE stage = "corsMiddleware" ->
            IF req.cors /\ req.method = "OPTIONS" THEN {End(200)} ELSE {Forward}
      [] stage = "throttleMiddleware" ->
            IF throttleMiddleware(Inflight) THEN {Forward} ELSE {End(503)}
      [] stage \in {"globalRateLimitMiddleware", "apiRateLimitMiddleware"} ->
            {Forward, End(429)}
      [] stage = "authMiddleware" -> {Forward, End(429), End(401), End(500)}
      [] stage = "handler" -> {End(200), End(500)}
      [] OTHER -> {Forward}

\* the router has matched a route
ChainArrive(p, route, method, cors) ==
    /\ cpc[p] = 0
    /\ p \in scenario.procs /\ route \in scenario.routes /\ method \in scenario.methods
    /\ cpc' = [cpc EXCEPT ![p] = 1]
    /\ creq' = [creq EXCEPT ![p] = [route |-> route, method |-> method, cors |-> cors]]
    /\ UNCHANGED <<ctrail, holds, others, clast>>

\* the stage the request stands before runs: it forwards, or it ends the
\* request and the deferred functions of the stages before it run
ChainStage(p) ==
    /\ cpc[p] > 0
    /\ LET stage == ChainOf(creq[p].route)[cpc[p]]
       IN  \E o \in Outcomes(stage, creq[p]) :
               IF o.fwd
               THEN /\ cpc' = [cpc EXCEPT ![p] = @ + 1]
                    /\ ctrail' = [ctrail EXCEPT ![p] = Append(@, stage)]
                    /\ holds' = [holds EXCEPT ![p] = @ \/ stage = "throttleMiddleware"]
                    /\ UNCHANGED <<creq, clast>>
               ELSE /\ clast' = [route |-> creq[p].route, method |-> creq[p].method,
                                 trail |-> Append(ctrail[p], stage), status |-> o.status,
                                 by |-> stage, inflight |-> Inflight]
                    /\ cpc' = [cpc EXCEPT ![p] = 0]
                    /\ creq' = [creq EXCEPT ![p] = NoReq]
                    /\ ctrail' = [ctrail EXCEPT ![p] = <<>>]
                    /\ holds' = [holds EXCEPT ![p] = HeldAfterEnd(@, stage, o.status)]
    /\ UNCHANGED others

\* another request passes the throttle
OtherEnter ==
    /\ others < MaxOthers
    /\ throttleMiddleware(Inflight)
    /\ others' = others + 1
    /\ UNCHANGED <<cpc, creq, ctrail, holds, clast>>

\* another request ends and releases its slot
OtherLeave ==
    /\ others > 0
    /\ others' = others - 1
    /\ UNCHANGED <<cpc, creq, ctrail, holds, clast>>

InitChain ==
    /\ cpc = [p \in Procs |-> 0]
    /\ creq = [p \in Procs |-> NoReq]
    /\ ctrail = [p \in Procs |-> <<>>]
    /\ holds = [p \in Procs |-> FALSE]
    /\ others = 0
    /\ clast = NoCLast

ChainStep ==
    \/ \E p \in Procs, route \in {"web", "api", "admin"}, method \in {"GET", "OPTIONS"},
          cors \in BOOLEAN : ChainArrive(p, route, method, cors)
    \/ \E p \in Procs : ChainStage(p)
    \/ OtherEnter
    \/ OtherLeave

(***************************************************************************)
(* Properties of the middleware chain.                                     *)
(***************************************************************************)
IsPrefix(s, t) == Len(s) <= Len(t) /\ SubSeq(t, 1, Len(s)) = s

\* C26: a request passes panic containment, security headers, CORS, the
\* body-size cap, the throttle and the rate limiter in this order, then the
\* brute-force check on a protected route; the stage that ends a request
\* with 429, 401, 500 or 503 is the last stage that runs for it.
C26_FixedOrder ==
    LET governance == << "recoverMiddleware", "securityHeadersMiddleware",
                         "corsMiddleware", "requestSizeLimitMiddleware",
                         "throttleMiddleware", "globalRateLimitMiddleware" >>
        order(route) == governance \o <<"loggingMiddleware">>
                          \o (IF route = "api" THEN <<"apiRateLimitMiddleware">>
                              ELSE IF route = "admin" THEN <<"authMiddleware">> ELSE <<>>)
                          \o <<"handler">>
    IN  /\ \A p \in Procs : cpc[p] > 0 => IsPrefix(ctrail[p], order(creq[p].route))
        /\ clast.status # 0 =>
              /\ IsPrefix(clast.trail, order(clast.route))
              /\ clast.trail[Len(clast.trail)] = clast.by
              /\ clast.status \in {429, 401, 503} => clast.by # "handler"
              /\ clast.by = "handler" => IsPrefix(governance, clast.trail)

C26_Witness ==
    /\ clast.route = "admin"
    /\ clast.status = 401
    /\ clast.by = "authMiddleware"
    /\ Len(clast.trail) = Len(Middlewares) + 1

\* C27: never more than maxConcurrent requests are past the throttle; a
\* request that finds maxConcurrent in flight is answered 503 at once, and
\* no request ever waits at the throttle.
C27_ThrottleBound ==
    /\ Inflight <= 1000
    /\ clast.by = "throttleMiddleware" => (clast.status = 503 /\ clast.inflight = 1000)
    /\ \A p \in Procs :
          (cpc[p] > 0 /\ ChainOf(creq[p].route)[cpc[p]] = "throttleMiddleware") =>
              /\ ENABLED ChainStage(p)
              /\ Inflight = 1000 => \A o \in Outcomes("throttleMiddleware", creq[p]) :
                                        o = End(503)

C27_Witness ==
    /\ clast.status = 503
    /\ clast.by = "throttleMiddleware"
    /\ Inflight = 1000

(***************************************************************************)
(* The identity of a client.  Header values and addresses are sequences    *)
(* of characters; an absent header reads as the empty string.  A failed    *)
(* login is recorded under the identity getClientIP gives the request.     *)
(***************************************************************************)
MaxRecorded == 2

ForwardedValues ==
    { <<>>, <<"a">>, <<"a", ",", "b">>, <<" ", "a", " ", ",", " ", "b">>,
      <<"b", ",", " ", "a", ",", "c">> }
RealIPValues == { <<>>, <<"b">>, <<" ", "c", " ">> }
RemoteAddrs == { <<"c", ":", "8">>, <<"[", ":", ":", "d", "]", ":", "8">> }
Inbound == [xff : ForwardedValues, xri : RealIPValues, remote : RemoteAddrs]

\* strings.LastIndex for a one-character separator; 0 when there is none
LastIndex(s, c) ==
    IF ~Contains(s, c) THEN 0
    ELSE CHOOSE j \in 1..Len(s) : s[j] = c /\ \A k \in (j + 1)..Len(s) : s[k] # c

\* strings.Trim(s, cutset)
RECURSIVE Trim(_, _)
Trim(s, cutset) ==
    IF s = <<>> THEN s
    ELSE IF s[1] \in cutset THEN Trim(Tail(s), cutset)
    ELSE IF s[Len(s)] \in cutset THEN Trim(SubSeq(s, 1, Len(s) - 1), cutset)
    ELSE s

\* mutant: X-Real-IP is preferred to X-Forwarded-For
getClientIPRealFirst(r) ==
    IF r.xri # <<>> THEN TrimSpace(r.xri)
    ELSE IF r.xff # <<>> THEN TrimSpace(Split(r.xff, ",")[1])
    ELSE LET colon == LastIndex(r.remote, ":")
             host == IF colon # 0 THEN SubSeq(r.remote, 1, colon - 1) ELSE r.remote
         IN  Trim(host, {"[", "]"})

getClientIP(r) ==
    IF r.xff # <<>> THEN TrimSpace(Split(r.xff, ",")[1])
    ELSE IF r.xri # <<>> THEN TrimSpace(r.xri)
    ELSE LET colon == LastIndex(r.remote, ":")
             host == IF colon # 0 THEN SubSeq(r.remote, 1, colon - 1) ELSE r.remote
         IN  Trim(host, {"[", "]"})

VARIABLES
    attemptsBy,   \* the failed attempts on record, by key
    ilast         \* history: the latest failed login

identVars == <<attemptsBy, ilast>>

NoRequest == [xff |-> <<>>, xri |-> <<>>, remote |-> <<>>]
NoILast == [op |-> "none", req |-> NoRequest, key |-> <<>>, pre |-> << >>]

\* authMiddleware turns a request without a valid token away: the attempt
\* is recorded under the client's identity
FailedLogin(r) ==
    LET clientIP == getClientIP(r)
        count == IF clientIP \in DOMAIN attemptsBy THEN attemptsBy[clientIP] ELSE 0
    IN  /\ count < MaxRecorded
        /\ attemptsBy' = [k \in DOMAIN attemptsBy \cup {clientIP} |->
                             IF k = clientIP THEN count + 1 ELSE attemptsBy[k]]
        /\ ilast' = [op |-> "failed", req |-> r, key |-> clientIP, pre |-> attemptsBy]

\* a successful login clears the record of the client
ClearedLogin(r) ==
    /\ getClientIP(r) \in DOMAIN attemptsBy
    /\ attemptsBy' = [k \in DOMAIN attemptsBy \ {getClientIP(r)} |-> attemptsBy[k]]
    /\ ilast' = [op |-> "cleared", req |-> r, key |-> getClientIP(r), pre |-> attemptsBy]

InitIdentity ==
    /\ attemptsBy = << >>
    /\ ilast = NoILast

IdentityStep ==
    \/ \E r \in Inbound : FailedLogin(r)
    \/ \E r \in Inbound : ClearedLogin(r)

(***************************************************************************)
(* Properties of the client identity.                                      *)
(***************************************************************************)
NotSpace(c) == c # " "
NotBracket(c) == c \notin {"[", "]"}

\* the text before the first comma, without its blanks
FirstAddress(s) ==
    LET k == CHOOSE j \in 1..(Len(s) + 1) :
                 /\ j = Len(s) + 1 \/ s[j] = ","
                 /\ \A m \in 1..(j - 1) : s[m] # ","
    IN  SelectSeq(SubSeq(s, 1, k - 1), NotSpace)

\* host:port or [host]:port, without the port and the brackets
HostOf(s) ==
    LET k == CHOOSE j \in 1..Len(s) : s[j] = ":" /\ \A m \in (j + 1)..Len(s) : s[m] # ":"
    IN  SelectSeq(SubSeq(s, 1, k - 1), NotBracket)

\* C30: the identity of a request is the first address of X-Forwarded-For
\* when the header is present, else X-Real-IP when present, else the
\* connection address without port and IPv6 brackets; a failed login adds
\* one attempt to the record of this identity and touches no other record.
C30_IdentityPreference ==
    ilast.op = "failed" =>
        LET id == IF ilast.req.xff # <<>> THEN FirstAddress(ilast.req.xff)
                  ELSE IF ilast.req.xri # <<>> THEN SelectSeq(ilast.req.xri, NotSpace)
                  ELSE HostOf(ilast.req.remote)
            was(k) == IF k \in DOMAIN ilast.pre THEN ilast.pre[k] ELSE 0
        IN  /\ ilast.key = id
            /\ DOMAIN attemptsBy = DOMAIN ilast.pre \cup {id}
            /\ \A k \in DOMAIN attemptsBy :
                  attemptsBy[k] = IF k = id THEN was(k) + 1 ELSE was(k)

C30_Witness ==
    /\ ilast.op = "failed"
    /\ ilast.req.xff = <<" ", "a", " ", ",", " ", "b">>
    /\ ilast.req.xri = <<"b">>
    /\ ilast.key = <<"a">>
    /\ <<":", ":", "d">> \in DOMAIN attemptsBy
    /\ <<"c">> \in DOMAIN attemptsBy
    /\ attemptsBy[<<"a">>] = 2

(***************************************************************************)
(* The life of the scheduler: Start, Stop, the evaluation loop and the     *)
(* goroutines that run the tasks.  The callers of Start and Stop take one  *)
(* action per step between two statements another goroutine can come in    *)
(* between.  At most MaxLoops loops are spawned and the tickers deliver    *)
(* MaxTicks times in a run.                                                *)
(***************************************************************************)
MaxLoops == 2
MaxTicks == 2

EveryMinute == Join(<< <<"*">>, <<"*">>, <<"*">>, <<"*">>, <<"*">> >>)

\* minute 1 of the hour the base schedule names
OffTime == <<1, 3, 1, 1, 0>>

LifeTasks ==
    << [Name |-> "job1", Schedule |-> BaseSchedule],
       [Name |-> "job2", Schedule |-> EveryMinute] >>

\* what the Func of each task does when it is run
LifeScenarios ==
    { [procs |-> Procs, tasks |-> LifeTasks, does |-> <<"ok", "ok">>] }
      \cup { [procs |-> {"g1"}, tasks |-> LifeTasks, does |-> d] :
                d \in { <<"blocks", "ok">>, <<"fails", "ok">>, <<"ok", "fails">>,
                        <<"blocks", "fails">> } }

VARIABLES
    running,     \* s.running
    stopCh,      \* s.stopCh: "open" or "closed"
    wg,          \* the counter of s.wg
    loop,        \* the run goroutines: "none", "select", "check" or "exited"
    callpc,         \* where each caller of Start and Stop stands
    panicked,    \* a goroutine has panicked: the program is gone
    ticks,       \* the times delivered by tickers so far
    inflight,    \* the runTask goroutines of each task that have not returned
    failures,    \* the failures logged for each task
    stopped,     \* history: a Stop has returned and no Start was called since
    klast        \* history: the latest checkTasks

lifeVars == <<running, stopCh, wg, loop, callpc, panicked, ticks, inflight, failures,
              stopped, klast>>

NoKLast == [op |-> "none", at |-> BaseTime, due |-> <<>>, sent |-> {}, blocked |-> {},
            failedBefore |-> {}]

Live == {l \in 1..MaxLoops : loop[l] \in {"select", "check"}}

\* mutant: checkTasks calls runTask itself, one task after the other
DispatchedInline(due) ==
    {k \in 1..Len(due) : due[k] /\ \A j \in 1..(k - 1) : ~(due[j] /\ scenario.does[j] = "blocks")}

\* checkTasks: the tasks a goroutine is started for
Dispatched(due) == {k \in 1..Len(due) : due[k]}

\* mutant: a task that failed is taken off the list
AfterFailureDrop(ts, k) == SubSeq(ts, 1, k - 1) \o SubSeq(ts, k + 1, Len(ts))

\* runTask: s.tasks after the Func of task k returned an error
AfterFailure(ts, k) == ts

\* Start: Lock, the test of s.running, s.running = true, Unlock
StartLock(p) ==
    /\ ~panicked
    /\ callpc[p] = "idle" /\ p \in scenario.procs
    /\ running \/ Cardinality({l \in 1..MaxLoops : loop[l] # "none"})
                    + Cardinality({q \in Procs : callpc[q] = "start_spawn"}) < MaxLoops
    /\ running' = TRUE
    /\ callpc' = [callpc EXCEPT ![p] = IF running THEN "idle" ELSE "start_spawn"]
    /\ stopped' = FALSE
    /\ UNCHANGED <<stopCh, wg, loop, panicked, ticks, inflight, failures, klast, schedVars>>

\* Start: s.wg.Add(1); go s.run()
StartSpawn(p) ==
    /\ ~panicked
    /\ callpc[p] = "start_spawn"
    /\ wg' = wg + 1
    /\ LET l == CHOOSE l \in 1..MaxLoops : loop[l] = "none" /\ \A m \in 1..(l - 1) : loop[m] # "none"
       IN  loop' = [loop EXCEPT ![l] = "select"]
    /\ callpc' = [callpc EXCEPT ![p] = "idle"]
    /\ UNCHANGED <<running, stopCh, panicked, ticks, inflight, failures, stopped, klast,
                   schedVars>>

\* Stop: Lock, the test of s.running, Unlock
StopLock(p) ==
    /\ ~panicked
    /\ callpc[p] = "idle" /\ p \in scenario.procs
    /\ callpc' = [callpc EXCEPT ![p] = IF running THEN "stop_close" ELSE "idle"]
    /\ stopped' = (stopped \/ ~running)
    /\ UNCHANGED <<running, stopCh, wg, loop, panicked, ticks, inflight, failures, klast,
                   schedVars>>

\* Stop: close(s.stopCh); closing a closed channel panics
StopClose(p) ==
    /\ ~panicked
    /\ callpc[p] = "stop_close"
    /\ panicked' = (stopCh = "closed")
    /\ stopCh' = "closed"
    /\ callpc' = [callpc EXCEPT ![p] = "stop_wait"]
    /\ UNCHANGED <<running, wg, loop, ticks, inflight, failures, stopped, klast, schedVars>>

\* Stop: s.wg.Wait() returns
StopWait(p) ==
    /\ ~panicked
    /\ callpc[p] = "stop_wait"
    /\ wg = 0
    /\ callpc' = [callpc EXCEPT ![p] = "stop_finish"]
    /\ UNCHANGED <<running, stopCh, wg, loop, panicked, ticks, inflight, failures, stopped,
                   klast, schedVars>>

\* Stop: Lock, s.running = false, Unlock, return
StopFinish(p) ==
    /\ ~panicked
    /\ callpc[p] = "stop_finish"
    /\ running' = FALSE
    /\ callpc' = [callpc EXCEPT ![p] = "idle"]
    /\ stopped' = TRUE
    /\ UNCHANGED <<stopCh, wg, loop, panicked, ticks, inflight, failures, klast, schedVars>>

\* run: the select takes the time t from the ticker
LoopTick(l, t) ==
    /\ ~panicked
    /\ loop[l] = "select"
    /\ ticks < MaxTicks
    /\ ticks' = ticks + 1
    /\ clock' = t
    /\ loop' = [loop EXCEPT ![l] = "check"]
    /\ UNCHANGED <<running, stopCh, wg, callpc, panicked, inflight, failures, stopped, klast,
                   tasks, tlast>>

\* run: the select takes the closed stopCh; return and the deferred wg.Done
LoopExit(l) ==
    /\ ~panicked
    /\ loop[l] = "select"
    /\ stopCh = "closed"
    /\ loop' = [loop EXCEPT ![l] = "exited"]
    /\ wg' = wg - 1
    /\ UNCHANGED <<running, stopCh, callpc, panicked, ticks, inflight, failures, stopped, klast,
                   schedVars>>

\* run: s.checkTasks(now) starts a goroutine for every task that is due
Check(l) ==
    /\ ~panicked
    /\ loop[l] = "check"
    /\ LET sent == Dispatched(checkTasks(clock))
       IN  /\ inflight' = [k \in 1..MaxTasks |-> inflight[k] + IF k \in sent THEN 1 ELSE 0]
           /\ klast' = [op |-> "check", at |-> clock, due |-> checkTasks(clock), sent |-> sent,
                        blocked |-> {k \in 1..Len(tasks) :
                                        inflight[k] > 0 /\ scenario.does[k] = "blocks"},
                        failedBefore |-> {k \in 1..MaxTasks : failures[k] > 0}]
    /\ loop' = [loop EXCEPT ![l] = "select"]
    /\ UNCHANGED <<running, stopCh, wg, callpc, panicked, ticks, failures, stopped, schedVars>>

\* runTask: task.Func() returns and the outcome is logged
runTask(k) ==
    /\ ~panicked
    /\ inflight[k] > 0
    /\ scenario.does[k] # "blocks"
    /\ inflight' = [inflight EXCEPT ![k] = @ - 1]
    /\ IF scenario.does[k] = "fails"
       THEN /\ failures' = [failures EXCEPT ![k] = @ + 1]
            /\ tasks' = AfterFailure(tasks, k)
       ELSE UNCHANGED <<failures, tasks>>
    /\ UNCHANGED <<running, stopCh, wg, loop, callpc, panicked, ticks, stopped, klast, clock,
                   tlast>>

\* scheduler.New()
InitLife ==
    /\ running = FALSE
    /\ stopCh = "open"
    /\ wg = 0
    /\ loop = [l \in 1..MaxLoops |-> "none"]
    /\ callpc = [p \in Procs |-> "idle"]
    /\ panicked = FALSE
    /\ ticks = 0
    /\ inflight = [k \in 1..MaxTasks |-> 0]
    /\ failures = [k \in 1..MaxTasks |-> 0]
    /\ stopped = FALSE
    /\ klast = NoKLast

LifeStep ==
    \/ \E p \in Procs : StartLock(p)
    \/ \E p \in Procs : StartSpawn(p)
    \/ \E p \in Procs : StopLock(p)
    \/ \E p \in Procs : StopClose(p)
    \/ \E p \in Procs : StopWait(p)
    \/ \E p \in Procs : StopFinish(p)
    \/ \E l \in 1..MaxLoops, t \in {BaseTime, OffTime} : LoopTick(l, t)
    \/ \E l \in 1..MaxLoops : LoopExit(l)
    \/ \E l \in 1..MaxLoops : Check(l)
    \/ \E k \in 1..MaxTasks : runTask(k)

(***************************************************************************)
(* Properties of the life of the scheduler.                                *)
(***************************************************************************)
\* C22: Start and Stop are idempotent: at most one evaluation loop is live
\* at any time, whatever the callers of Start do, and no call of Stop ends
\* in a panic, whether the scheduler is stopped, is stopped twice in a row,
\* or is stopped by two callers at once.
C22_Idempotent ==
    /\ ~panicked
    /\ Cardinality(Live) <= 1

\* C23: once Stop has returned, and until Start is called again, no
\* evaluation loop is live: none waits for a tick and none is checking tasks.
C23_StopWaits == stopped => Live = {}

\* C24: with a task of the list blocked for ever, a check still starts
\* every task that is due, the loop still takes the next tick, and Stop
\* still returns: the loop leaves once stopCh is closed and the wait of Stop
\* ends once the loop has left.
C24_Isolation ==
    /\ klast.op = "check" => klast.sent = {k \in 1..Len(klast.due) : klast.due[k]}
    /\ (~panicked /\ \E k \in 1..MaxTasks : inflight[k] > 0 /\ scenario.does[k] = "blocks") =>
          /\ \A l \in 1..MaxLoops :
                (loop[l] = "select" /\ ticks < MaxTicks) => ENABLED LoopTick(l, BaseTime)
          /\ \A l \in 1..MaxLoops :
                (loop[l] = "select" /\ stopCh = "closed") => ENABLED LoopExit(l)
          /\ \A p \in Procs : (callpc[p] = "stop_wait" /\ Live = {}) => ENABLED StopWait(p)

C24_Witness ==
    /\ klast.op = "check"
    /\ klast.blocked = {1}
    /\ klast.sent = {1, 2}
    /\ inflight[1] = 2
    /\ stopped

\* C25: a task that fails changes nothing but the log: the list of tasks,
\* the running flag, the loops and the wait group stay as they are and
\* nothing panics; a later check starts the task again when it is due.
C25_FailureContained ==
    /\ [][failures' # failures =>
            /\ tasks' = tasks /\ running' = running /\ loop' = loop
            /\ wg' = wg /\ stopCh' = stopCh /\ panicked' = panicked]_<<lifeVars, schedVars>>
    /\ [](klast.op = "check" =>
            /\ tasks = scenario.tasks
            /\ \A k \in klast.failedBefore : klast.due[k] => k \in klast.sent)

C25_Witness ==
    /\ klast.op = "check"
    /\ klast.failedBefore = {1}
    /\ 1 \in klast.sent
    /\ failures[1] = 2
    /\ running

\* C21: shouldRun is true exactly when all five fields match the minute,
\* hour, day of month, month and weekday of now; "0 3 * * 0" is due exactly
\* at minute 0 of hour 3 on weekday 0, on any day of any month.
C21_ShouldRunAllFields ==
    tlast.op = "checkTasks" =>
        \A k \in 1..Len(tasks) :
            /\ tlast.due[k] =
                  \A i \in 1..5 : matchField(Fields(tasks[k].Schedule)[i], tlast.at[i],
                                             CronFields[i].min, CronFields[i].max)
            /\ tasks[k].Schedule = BaseSchedule =>
                  tlast.due[k] = (tlast.at[1] = 0 /\ tlast.at[2] = 3 /\ tlast.at[5] = 0)

C21_Witness ==
    /\ tlast.op = "checkTasks"
    /\ tasks # <<>>
    /\ tasks[1].Schedule = BaseSchedule
    /\ tlast.at[3] = 31
    /\ tlast.due[1]

\* C28: cleanupExpiredAttempts removes exactly the records whose lastAttempt
\* is more than 15 minutes old and leaves every other record as it was; the
\* sweeper keeps running, so a record that has become that old is
\* eventually gone.
C28_SweepExact ==
    last.op = "cleanup" =>
        \A x \in Identities :
            failedAttempts[x] =
                IF last.pre[x].exists /\ last.at - last.pre[x].lastAttempt > 15
                THEN NoRecord ELSE last.pre[x]

C28_Abandoned(x) == failedAttempts[x].exists /\ now - failedAttempts[x].lastAttempt > 15

C31_UniqueNames ==
    \A i, j \in 1..Len(tasks) : i # j => tasks[i].Name # tasks[j].Name

\* C32: every operation of the settings manager terminates: a goroutine
\* that goes on to LoadSettings does not hold the settings lock LoadSettings
\* is about to take, so that the lock a ResetToDefaults or an ImportSettings
\* took is released and later readers and reloads get through.
C32_Terminates ==
    \A p \in Procs : spc[p] = "load" => mu # WriteLocked(p)

\* C33: between the calls of Start and Stop the running flag is true
\* exactly when an evaluation loop is live, and no call ends in a panic: a
\* Start after a completed Stop brings up a loop that stays, and the Stop
\* after it returns.
C33_RunningIffLive ==
    /\ (\A p \in Procs : callpc[p] = "idle") => (running <=> Live # {})
    /\ ~panicked

\* C34: with no administrative operation in flight, right after a bulk
\* update, a single update, an import or a reset has returned (with or
\* without an error), every key reads the same from the cache as from the
\* table.
C34_CacheIsStore ==
    (/\ \A p \in Procs : spc[p] = "idle"
     /\ slast.op \in {"handleAdminSettings", "UpdateSetting", "ImportSettings",
                      "ResetToDefaults"}) =>
        \A k \in Keys : CacheGet(cache, k) = GetSettingValue(store, k)

\* C35: the failure count of an identity never exceeds the threshold of 5
\* while its record is unexpired, however many requests of the identity are
\* in authMiddleware at once.
C35_CountWithinThreshold ==
    \A x \in Identities :
        (failedAttempts[x].exists /\ now - failedAttempts[x].lastAttempt <= 15) =>
            failedAttempts[x].count <= 5

\* C36: a lockout lifts: a request turned away as blocked is answered 429
\* at once and leaves every record as it was, count and lastAttempt
\* included, and a request checked more than 15 minutes after the last
\* recorded failure of its identity is not blocked, whatever the count.
C36_LockoutLifts ==
    last.op = "check" =>
        /\ last.ret => (failedAttempts = last.pre /\ last.status = 429 /\ last.trace = <<"check">>)
        /\ (last.pre[last.ip].exists /\ last.at - last.pre[last.ip].lastAttempt > 15) => ~last.ret

C36_Witness ==
    /\ last.op = "check"
    /\ ~last.ret
    /\ last.pre[last.ip].count >= 5
    /\ last.at - last.pre[last.ip].lastAttempt > 15

\* C37: the sweep cannot be observed: after cleanupExpiredAttempts, at that
\* moment and at any later time, checkBruteForce answers for every identity
\* what it would have answered on the records as they were before the sweep,
\* and recordFailedAttempt leaves the same count and time; a reset leaves
\* no record either way.
C37_SweepInvisible ==
    last.op = "cleanup" =>
        \A x \in Identities : \A t \in now..MaxTime :
            /\ checkBruteForce(failedAttempts, x, t) = checkBruteForce(last.pre, x, t)
            /\ nextAttempt(failedAttempts[x], t) = nextAttempt(last.pre[x], t)
            /\ resetFailedAttempts(failedAttempts, x)[x] = resetFailedAttempts(last.pre, x)[x]

C37_Witness ==
    /\ last.op = "cleanup"
    /\ \E x \in Identities :
          /\ last.pre[x].exists /\ last.pre[x].count >= 5
          /\ ~failedAttempts[x].exists

\* C38: a request answered with a success status has passed the throttle
\* and has been counted by the global rate limiter, a preflight request that
\* the CORS stage answers itself included.
C38_SuccessIsGoverned ==
    clast.status = 200 =>
        /\ \E i \in 1..Len(clast.trail) : clast.trail[i] = "throttleMiddleware"
        /\ \E i \in 1..Len(clast.trail) : clast.trail[i] = "globalRateLimitMiddleware"

\* C39: throttle slots never leak: a request holds a slot exactly while it
\* is downstream of the throttle, whatever ends it, a panic of the handler
\* included; when the requests followed and the other short requests have
\* all ended, only the long-running requests the run started with hold
\* slots, so that every other slot can be taken again.
C39_NoLeak ==
    /\ \A p \in Procs :
          holds[p] <=> (cpc[p] > 0 /\ \E i \in 1..Len(ctrail[p]) :
                                        ctrail[p][i] = "throttleMiddleware")
    /\ ((\A p \in Procs : cpc[p] = 0) /\ others = 0) =>
          (Inflight = scenario.base /\ (scenario.base < 1000 => throttleMiddleware(Inflight)))

C39_Witness ==
    /\ clast.by = "handler" /\ clast.status = 500
    /\ \A p \in Procs : cpc[p] = 0
    /\ others = 0
    /\ Inflight = 0

\* C40: seeding only sets keys that do not exist: a key present before the
\* call keeps its value, the empty string included; a call that ends
\* without an error has inserted every missing default; and a second call
\* right after it changes nothing.
C40_SeedOnlyMissing ==
    acall.fn = "InitializeDefaultSettings" =>
        /\ \A k \in Keys : acall.before[k].present => store[k] = acall.before[k]
        /\ ~acall.err => \A k \in Keys : store[k].present
        /\ ~acall.err => \A r \in InitializeDefaultSettings(store) : r.table = store

(***************************************************************************)
(* Specifications.                                                         *)
(***************************************************************************)
vars == <<bfVars, smVars, accVars, limVars, schedVars, chainVars, identVars, lifeVars>>

\* the guard of authMiddleware at rest
IdleGuard ==
    /\ failedAttempts = [x \in Identities |-> NoRecord]
    /\ failedAttemptsMu = NoHolder /\ now = 0 /\ dbConfigured = TRUE
    /\ pc = [p \in Procs |-> "idle"] /\ ip = [p \in Procs |-> NoIp]
    /\ attempt = [p \in Procs |-> NoRecord] /\ trace = [p \in Procs |-> <<>>]
    /\ overlap = [p \in Procs |-> FALSE]
    /\ streak = [x \in Identities |-> 0] /\ streakLast = [x \in Identities |-> 0]
    /\ last = NoLast

\* the settings manager at rest (the table is set by the specification)
IdleManager ==
    /\ mu = NoHolder
    /\ spc = [p \in Procs |-> "idle"] /\ caller = [p \in Procs |-> "-"]
    /\ arg = [p \in Procs |-> NoAfter] /\ todo = [p \in Procs |-> {}]
    /\ idx = [p \in Procs |-> 0] /\ slast = NoSLast

\* the brute-force guard under authMiddleware; the settings side is idle
InitGuardSpec ==
    /\ InitGuard
    /\ store = DefaultStore
    /\ cache = store /\ loadedFrom = store
    /\ IdleManager
    /\ acall = NoCall
    /\ InitLimiter
    /\ IdleScheduler
    /\ InitChain
    /\ InitIdentity
    /\ InitLife
NextGuard == GuardStep /\ UNCHANGED <<smVars, accVars, limVars, schedVars, chainVars, identVars, lifeVars>>
SpecGuard == InitGuardSpec /\ [][NextGuard]_vars

\* the guard with its sweeper: startBruteForceCleanup's goroutine runs for
\* ever, a goroutine that holds failedAttemptsMu goes on to release it, and
\* the mutex does not starve a waiter
NextCleanup == Cleanup /\ UNCHANGED <<smVars, accVars, limVars, schedVars, chainVars, identVars, lifeVars>>
NextRelease ==
    (\E p \in Procs : RfaRead(p) \/ RfaWrite(p))
        /\ UNCHANGED <<smVars, accVars, limVars, schedVars, chainVars, identVars, lifeVars>>
SpecSweeper ==
    InitGuardSpec /\ [][NextGuard]_vars /\ SF_vars(NextCleanup) /\ WF_vars(NextRelease)

\* the settings manager; the guard side is idle
InitSettingsSpec ==
    /\ scenario \in Scenarios
    /\ InitSettings
    /\ IdleGuard
    /\ acall = NoCall
    /\ InitLimiter
    /\ IdleScheduler
    /\ InitChain
    /\ InitIdentity
    /\ InitLife
NextSettings == SettingsStep /\ UNCHANGED <<bfVars, accVars, limVars, schedVars, chainVars, identVars, lifeVars>>
SpecSettings == InitSettingsSpec /\ [][NextSettings]_vars

\* the administrative writes alone, on the same manager
NextAdmin == AdminStep /\ UNCHANGED <<bfVars, accVars, limVars, schedVars, chainVars, identVars, lifeVars>>
SpecAdmin == InitSettingsSpec /\ [][NextAdmin]_vars

\* the typed accessors on a table of arbitrary rows
InitAccessorsSpec ==
    /\ InitAccessors
    /\ cache = store /\ loadedFrom = store
    /\ IdleManager
    /\ scenario \in {s \in Scenarios : s.procs = Procs}
    /\ IdleGuard
    /\ InitLimiter
    /\ IdleScheduler
    /\ InitChain
    /\ InitIdentity
    /\ InitLife
NextAccessors ==
    AccessorStep /\ UNCHANGED <<bfVars, limVars, schedVars, chainVars, identVars, lifeVars, cache, mu, spc, caller, arg, todo, idx,
                                 loadedFrom, slast>>
SpecAccessors == InitAccessorsSpec /\ [][NextAccessors]_vars

\* the seeding of the defaults, on the same table
NextSeeding ==
    SeedingStep /\ UNCHANGED <<bfVars, limVars, schedVars, chainVars, identVars, lifeVars, cache, mu, spc,
                               caller, arg, todo, idx, loadedFrom, slast>>
SpecSeeding == InitAccessorsSpec /\ [][NextSeeding]_vars

\* the rate limiter tiers; everything else is idle
InitLimiterSpec ==
    /\ InitLimiter
    /\ scenario \in LimScenarios
    /\ IdleGuard
    /\ store = DefaultStore
    /\ cache = store /\ loadedFrom = store
    /\ IdleManager
    /\ acall = NoCall
    /\ IdleScheduler
    /\ InitChain
    /\ InitIdentity
    /\ InitLife
NextLimiter == LimiterStep /\ UNCHANGED <<bfVars, smVars, accVars, schedVars, chainVars, identVars, lifeVars>>
SpecLimiter == InitLimiterSpec /\ [][NextLimiter]_vars

\* the scheduler; everything else is idle
InitSchedulerSpec ==
    /\ scenario \in SchedScenarios
    /\ InitScheduler
    /\ IdleGuard
    /\ store = DefaultStore
    /\ cache = store /\ loadedFrom = store
    /\ IdleManager
    /\ acall = NoCall
    /\ InitLimiter
    /\ InitChain
    /\ InitIdentity
    /\ InitLife
NextScheduler ==
    SchedulerStep /\ UNCHANGED <<bfVars, smVars, accVars, limVars, chainVars, identVars, lifeVars>>
SpecScheduler == InitSchedulerSpec /\ [][NextScheduler]_vars

\* the middleware chain; everything else is idle
InitChainSpec ==
    /\ InitChain
    /\ scenario \in ChainScenarios
    /\ IdleGuard
    /\ store = DefaultStore
    /\ cache = store /\ loadedFrom = store
    /\ IdleManager
    /\ acall = NoCall
    /\ InitLimiter
    /\ IdleScheduler
    /\ InitIdentity
    /\ InitLife
NextChain ==
    ChainStep /\ UNCHANGED <<bfVars, smVars, accVars, limVars, schedVars, identVars, lifeVars>>
SpecChain == InitChainSpec /\ [][NextChain]_vars

\* the identity of clients; everything else is idle
InitIdentitySpec ==
    /\ InitIdentity
    /\ scenario = [procs |-> {}]
    /\ IdleGuard
    /\ store = DefaultStore
    /\ cache = store /\ loadedFrom = store
    /\ IdleManager
    /\ acall = NoCall
    /\ InitLimiter
    /\ IdleScheduler
    /\ InitChain
    /\ InitLife
NextIdentity ==
    IdentityStep /\ UNCHANGED <<bfVars, smVars, accVars, limVars, schedVars, chainVars, lifeVars>>
SpecIdentity == InitIdentitySpec /\ [][NextIdentity]_vars

\* the life of the scheduler, with its tasks registered; everything else
\* is idle
InitLifeSpec ==
    /\ InitLife
    /\ scenario \in LifeScenarios
    /\ tasks = scenario.tasks
    /\ clock = BaseTime
    /\ tlast = NoTLast
    /\ IdleGuard
    /\ store = DefaultStore
    /\ cache = store /\ loadedFrom = store
    /\ IdleManager
    /\ acall = NoCall
    /\ InitLimiter
    /\ InitChain
    /\ InitIdentity
NextLife == LifeStep /\ UNCHANGED <<bfVars, smVars, accVars, limVars, chainVars, identVars>>
SpecLife == InitLifeSpec /\ [][NextLife]_vars

====
